---- MODULE Spec2Model ----
(***************************************************************************)
(* Model of pymoku's frame/streaming layer (pymoku/_frame_instrument.py): *)
(* DataFrame packet reassembly, the FrameQueue, the frame worker thread    *)
(* with set_running / get_frame, and the data-logging session calls.       *)
(*                                                                         *)
(* Specifications:                                                         *)
(*   SpecFrame  one DataFrame instance fed packets through add_packet      *)
(*   SpecQueue  one FrameQueue with a thread calling put and one calling   *)
(*              get                                                        *)
(*   Spec       the instrument: worker thread, controlling thread and a    *)
(*              consumer in get_frame; FairSpec adds thread scheduling     *)
(*   SpecDL     the data-logging calls of one client against the device    *)
(*                                                                         *)
(* Python 2 semantics are modelled where 2 and 3 differ (the repository's  *)
(* examples use the print statement and _phasemeter.py an implicit         *)
(* relative import): an int compares as not less than None.                *)
(* The device (pymoku.Moku, the firmware) and dataparser are not part of   *)
(* the source given; they are modelled from the specification.             *)
(***************************************************************************)
EXTENDS Integers, Sequences, FiniteSets, TLC

\* ------------------------------------------------------------------ bounds
\* packets fed to the single DataFrame of SpecFrame
MaxPackets == 4

\* largest capacity a FrameQueue is built with
MaxCap == 2
\* SpecQueue: items handed to put
MaxItems == 4

\* Spec: DataFrame objects the worker may create
MaxFrames == 3

\* SpecDL: messages the device publishes
MaxMsgs == 3

\* SpecReg: attribute writes and set_samplerate calls in one run
MaxSets == 2

\* ------------------------------------------------------- program constants
\* Python's None (DataFrame.__init__: stateid, trigstate, flags)
None == -1
\* add_packet: hdr_len
hdr_len == 15
\* add_packet: the footer trimmed by packet[hdr_len:-8]
footer_len == 8

\* DL_STATE_*
DL_STATE_NONE == 0
DL_STATE_RUNNING == 1
DL_STATE_WAITING == 2
DL_STATE_INVAL == 3
DL_STATE_FSFULL == 4
DL_STATE_OVERFLOW == 5
DL_STATE_BUSY == 6
DL_STATE_STOPPED == 7

\* _phasemeter.py: register numbers
REG_PM_CGAIN == 66
REG_PM_INTSHIFT == 66
REG_PM_OUTDEC == 67
REG_PM_OUTSHIFT == 67
REG_PM_BW1 == 124
REG_PM_BW2 == 125
\* _PM_UPDATE_RATE = 1e6
_PM_UPDATE_RATE == 1000000
\* pre-defined log rates
_PM_LOGRATE_FAST == 123
_PM_LOGRATE_SLOW == 31

VARIABLES
    df,           \* SpecFrame: the DataFrame instance
    hist,         \* SpecFrame: the packets applied to df, oldest first
    dfBefore,     \* SpecFrame: df as it was before the last add_packet call
    lastPacket,   \* SpecFrame: the packet of the last add_packet call
    npackets,     \* SpecFrame: number of add_packet calls so far
    _queue,       \* the FrameQueue object: [maxsize, queue (the deque, oldest first)]
    putter,       \* SpecQueue: the thread calling put: its place, arguments, effect
    nitems,       \* SpecQueue: items handed to put so far (items are numbered)
    heap,         \* Spec: the DataFrame objects the worker has created, by reference
    fr,           \* Spec: the worker's local fr, a reference into heap (0: none)
    staleq,       \* Spec: the FrameQueue a get in progress still holds after
                  \*       set_buffer_length replaced self._queue
    _running,     \* Spec: MokuInstrument._running
    _stateid,     \* Spec: MokuInstrument._stateid, the committed state id
    frame_class,  \* Spec: whether set_frame_class has been called
    worker,       \* Spec: the frame worker thread's place
    ctl,          \* Spec: the controlling thread: its place
    getter,       \* Spec: the consumer thread: its place in get_frame and the call
    completed,    \* Spec: references of the frames the worker enqueued, in order
    delivered,    \* Spec: references of the frames get_frame returned, in order
    _dlserial,    \* SpecDL: the session serial counter
    tag,          \* SpecDL: self.tag, "%04d" % _dlserial as a digit sequence
    chans,        \* SpecDL: self.ch1, self.ch2, self.nch (None before a start)
    logfile,      \* SpecDL: self.logfile
    _dlftype,     \* SpecDL: the filetype recorded by the last successful start
    _dlskt,       \* SpecDL: the subscription handle, a reference into subs (0: None)
    subs,         \* SpecDL: the SUB sockets created so far: [tag, open, rx]
    dev,          \* SpecDL: the device's stream state
    dlcall,       \* SpecDL: the API call that just ended: outcome, what it did
    waiter,       \* SpecDL: the datalogger_wait call in progress or just ended
    session,      \* SpecDL: whether a session was started and not stopped since
    callargs,     \* SpecCalls: the arguments of the one call made
    local,        \* SpecUpload: the files of the working directory, name to content
    remote,       \* SpecUpload: the device's files per mount point, in listing order
    upcall,       \* SpecUpload: the upload call that just ended and what it did
    buf,          \* SpecBuf: the get_buffer call: its place, arguments, effect
    cons,         \* SpecFQ: each consumer thread's place in FrameQueue.get
    qlog,         \* SpecFQ: what the queue's callers observed: the items returned,
                  \*         the items evicted or flushed, the last flush
    regs,         \* SpecReg: the local register mirror, register number to value
    pm            \* SpecReg: the Phasemeter's timestep, and the last attribute
                  \*          write or set_samplerate call and its outcome

frameVars == <<df, hist, dfBefore, lastPacket, npackets>>
queueVars == <<putter, nitems>>
instrVars == <<heap, fr, staleq, _running, _stateid, frame_class, worker, ctl,
               getter, completed, delivered>>
clientVars == <<_dlserial, tag, chans, logfile, _dlftype, _dlskt>>
auxVars == <<cons, qlog, regs, pm>>
sideVars == <<callargs, local, remote, upcall, buf, auxVars>>
dlVarsCore == <<_dlserial, tag, chans, logfile, _dlftype, _dlskt, subs, dev,
                dlcall, waiter, session>>
dlVars == <<_dlserial, tag, chans, logfile, _dlftype, _dlskt, subs, dev, dlcall,
            waiter, session, sideVars>>

vars == <<df, hist, dfBefore, lastPacket, npackets, _queue, putter, nitems,
          heap, fr, staleq, _running, _stateid, frame_class, worker, ctl,
          getter, completed, delivered,
          _dlserial, tag, chans, logfile, _dlftype, _dlskt, subs, dev, dlcall,
          waiter, session, callargs, local, remote, upcall, buf, cons, qlog, regs, pm>>

\* ------------------------------------------------------------- DataFrame
\* DataFrame.__init__
NewFrame ==
    [ complete      |-> FALSE,
      chs_valid     |-> <<FALSE, FALSE>>,
      raw1          |-> <<>>,
      raw2          |-> <<>>,
      stateid       |-> None,
      trigstate     |-> None,
      frameid       |-> 0,
      waveformid    |-> 0,
      flags         |-> None,
      source_serial |-> None ]

\* struct.unpack('<BHBBBBBIBH', packet[:hdr_len]): little-endian, unpadded.
\* data[1], the 16-bit frame id at bytes 1..2
unpack_frameid(packet) == packet[2] + 256 * packet[3]
\* data[3], the channel/flags byte
unpack_chanbyte(packet) == packet[5]
\* data[4], data[5], data[6]
unpack_stateid(packet) == packet[6]
unpack_trigstate(packet) == packet[7]
unpack_flags(packet) == packet[8]
\* data[7], the 32-bit waveform id at bytes 8..11
unpack_waveformid(packet) ==
    packet[9] + 256 * packet[10] + 65536 * packet[11] + 16777216 * packet[12]
\* data[8]
unpack_source_serial(packet) == packet[13]

\* chan = (data[3] >> 4) & 0x0F
packet_chan(packet) == (unpack_chanbyte(packet) \div 16) % 16

\* packet[hdr_len:-8]
packet_payload(packet) == SubSeq(packet, hdr_len + 1, Len(packet) - footer_len)

\* mutant of too_short: only packets shorter than the header are dropped
too_short_strict(packet) == Len(packet) < hdr_len

\* add_packet's length test: len(packet) <= hdr_len
too_short(packet) == Len(packet) <= hdr_len

\* mutant of reset_on_new_id: the frame id is taken over, the flags are kept
reset_on_new_id_keep(self, frameid) ==
    IF self.frameid # frameid
    THEN [self EXCEPT !.frameid = frameid]
    ELSE self

\* if self.frameid != frameid: self.frameid = frameid; self.chs_valid = [False, False]
reset_on_new_id(self, frameid) ==
    IF self.frameid # frameid
    THEN [self EXCEPT !.frameid = frameid, !.chs_valid = <<FALSE, FALSE>>]
    ELSE self

\* if chan == 0: chs_valid[0] = True; raw1 = payload  else: chs_valid[1] = True; raw2 = payload
assign_channel(self, packet) ==
    IF packet_chan(packet) = 0
    THEN [self EXCEPT !.chs_valid[1] = TRUE, !.raw1 = packet_payload(packet)]
    ELSE [self EXCEPT !.chs_valid[2] = TRUE, !.raw2 = packet_payload(packet)]

\* mutant of finish_packet: the answer of process_complete() is ignored
finish_packet_nohook(self, hookOK) ==
    [self EXCEPT !.complete = self.chs_valid[1] /\ self.chs_valid[2]]

\* self.complete = all(self.chs_valid); if complete and not process_complete(): revoke
finish_packet(self, hookOK) ==
    LET c == [self EXCEPT !.complete = self.chs_valid[1] /\ self.chs_valid[2]]
    IN  IF c.complete /\ ~hookOK
        THEN [c EXCEPT !.complete = FALSE, !.chs_valid = <<FALSE, FALSE>>]
        ELSE c

\* DataFrame.add_packet; hookOK is what process_complete() returns if it is called
add_packet(self, packet, hookOK) ==
    IF too_short(packet)
    THEN self
    ELSE LET h == [self EXCEPT !.stateid       = unpack_stateid(packet),
                               !.trigstate     = unpack_trigstate(packet),
                               !.flags         = unpack_flags(packet),
                               !.waveformid    = unpack_waveformid(packet),
                               !.source_serial = unpack_source_serial(packet)]
         IN  finish_packet(assign_channel(reset_on_new_id(h, unpack_frameid(packet)), packet), hookOK)

\* ------------------------------------------------------------ FrameQueue
\* FrameQueue._init: self.queue = deque(maxlen=maxsize)
_init(maxsize) == [ maxsize |-> maxsize, queue |-> <<>> ]

\* Queue._qsize: len(self.queue)
_qsize(q) == Len(q.queue)

\* mutant of deque_append: a full deque refuses the new item
deque_append_reject(d, maxlen, item) ==
    IF Len(d) < maxlen THEN Append(d, item) ELSE d

\* deque.append on a deque(maxlen): a full deque discards its leftmost item
deque_append(d, maxlen, item) ==
    IF maxlen = 0 THEN <<>>
    ELSE IF Len(d) = maxlen THEN Append(Tail(d), item)
    ELSE Append(d, item)

\* Queue._put: self.queue.append(item)
_put(q, item) == [q EXCEPT !.queue = deque_append(q.queue, q.maxsize, item)]

\* mutant of _get: the oldest item is read but stays in the deque
_get_keep(q) == q

\* Queue._get: self.queue.popleft()
_get(q) == [q EXCEPT !.queue = Tail(q.queue)]

\* mutant of popleft: the newest entry is taken
popleft_newest(d) == d[Len(d)]

\* deque.popleft(): the leftmost entry, which Queue._get returns
popleft(d) == Head(d)

\* mutant of queue_clear: the newest entry survives
queue_clear_keep(q) == [q EXCEPT !.queue = IF @ = <<>> THEN <<>> ELSE <<@[Len(@)]>>]

\* flush: with self._queue.mutex: self._queue.queue.clear()
queue_clear(q) == [q EXCEPT !.queue = <<>>]

\* the entries a deque holds
entries(d) == { d[i] : i \in 1..Len(d) }

\* FrameQueue.put: must the caller wait on not_full? (timeout None)
\*   if self.maxsize > 0 and block: while self._qsize() == self.maxsize: wait()
put_waits(q, block) == q.maxsize > 0 /\ block /\ _qsize(q) = q.maxsize

\* the put client of SpecQueue when it is in no call
IdlePutter == [ pc |-> "idle", item |-> 0, block |-> FALSE, timeout |-> None,
                before |-> <<>>, after |-> <<>>, waited |-> FALSE ]

\* the consumer thread of Spec when it is in no get_frame call and has made none
IdleGetter == [ pc |-> "idle", timeout |-> None, wait |-> FALSE, popped |-> <<>>,
                onstale |-> FALSE, result |-> "", frame |-> 0, stateid |-> None ]

\* ----------------------------------------------------- data-logging state
\* self.ch1, self.ch2, self.nch before any start has set them
NoChans == [ ch1 |-> FALSE, ch2 |-> FALSE, nch |-> None ]

\* self._dlftype = None; a filetype is a str object: its text, and whether it is
\* the interned literal itself (`is` compares objects, == compares text)
NoFiletype == [ s |-> "None", literal |-> FALSE ]

\* the device before any stream: status NONE, no stream ever started
IdleDevice == [ status |-> DL_STATE_NONE, streams |-> 0, tag |-> <<>>,
                net |-> FALSE, prepared |-> FALSE, fname |-> <<>>,
                sent |-> 0, asked |-> <<>> ]

\* no API call made yet
NoCall == [ op |-> "none", result |-> "none", err |-> None, trace |-> <<>>,
            net |-> FALSE, changed |-> {}, streams |-> 0,
            active |-> FALSE, stopped |-> FALSE, serial0 |-> None ]

\* no datalogger_wait call in progress
IdleWaiter == [ pc |-> "idle", timeout |-> None, upload |-> FALSE,
                ch1 |-> <<>>, ch2 |-> <<>>,
                consumed |-> <<>>, result |-> "none" ]

\* ------------------------------------------------------- packets on the wire
\* struct.pack of the header fields followed by n body bytes (payload + footer)
MkPacket(frameid, chanbyte, stateid, trigstate, flags, waveformid, nbody, fill) ==
    << 0, frameid % 256, frameid \div 256, 0, chanbyte, stateid, trigstate, flags,
       waveformid % 256, (waveformid \div 256) % 256, (waveformid \div 65536) % 256,
       waveformid \div 16777216, 7, 0, 0 >> \o [i \in 1..nbody |-> fill]

\* a packet cut short inside the header
Truncated(packet, n) == SubSeq(packet, 1, n)

\* the two header variants a packet of SpecFrame carries:
\* <<stateid, trigstate, flags, waveformid, body bytes>>
HeaderVariants == { <<1, 1, 0, 1, 1>>, <<2, 0, 3, 65538, 10>> }

\* well-formed packets: frame ids 0 (a new frame's own id) and 257, channel bytes
\* selecting nibble 0, 1 and 2
GoodPackets ==
    { MkPacket(fid, cb, v[1], v[2], v[3], v[4], v[5], 170) :
        fid \in {0, 257}, cb \in {0, 16, 47}, v \in HeaderVariants }

\* packets of at most hdr_len bytes: a bare header and a header cut by one byte
ShortPackets ==
    { MkPacket(257, 16, 2, 0, 3, 65538, 0, 170),
      Truncated(MkPacket(257, 16, 2, 0, 3, 65538, 0, 170), hdr_len - 1) }

FramePackets == GoodPackets \cup ShortPackets

\* ------------------------------------------------ SpecFrame: one DataFrame
\* the channel (1 or 2) a packet is applied to
ChannelOf(packet) == IF packet_chan(packet) = 0 THEN 1 ELSE 2

\* the DataFrame of SpecFrame, as constructed
FrameStart ==
    /\ df = NewFrame
    /\ hist = <<>>
    /\ dfBefore = NewFrame
    /\ lastPacket = <<>>
    /\ npackets = 0

\* the queue client of SpecQueue before its first call
QueueStart ==
    /\ putter = IdlePutter
    /\ nitems = 0

\* FrameBasedInstrument.__init__ (and MokuInstrument.__init__): not running, no
\* worker thread, an empty FrameQueue of length _buflen = 1
InstrStart ==
    /\ heap = <<>>
    /\ fr = 0
    /\ staleq = _init(1)
    /\ _running = FALSE
    /\ _stateid = 0
    /\ worker = "none"
    /\ ctl = [ pc |-> "idle" ]
    /\ getter = IdleGetter
    /\ completed = <<>>
    /\ delivered = <<>>

\* FrameBasedInstrument.__init__: no session; the device idle
\* no call recorded
NoArgs == [ op |-> "none" ]

\* no upload made
NoUpload == [ op |-> "none", result |-> "none", events |-> <<>>,
              before |-> <<>>, n |-> 0 ]

\* no get_buffer call made
IdleBuf == [ pc |-> "idle", timeout |-> None, ch1 |-> <<>>, ch2 |-> <<>>,
            consumed |-> <<>>, trace |-> <<>>, started |-> "none", skt |-> 0,
            popped |-> <<>>, stateid |-> None, result |-> "none" ]

\* the consumers of SpecFQ
Consumers == {1, 2}

\* a consumer in no get call
IdleConsumer == [ pc |-> "idle", timeout |-> None, since |-> 0 ]

\* nothing returned, evicted or flushed yet
NoLog == [ returned |-> <<>>, evicted |-> {}, flushed |-> {}, flushmark |-> 0,
           justflushed |-> FALSE ]

\* no attribute written yet; timestep not set
NoWrite == [ timestep |-> None, nsets |-> 0,
            last |-> [ op |-> "none", name |-> "", value |-> 0, raised |-> "none",
                       before |-> <<>> ] ]

\* SpecFQ: the consumers idle, nothing logged
FQStart ==
    /\ cons = [ c \in Consumers |-> IdleConsumer ]
    /\ qlog = NoLog

\* no Phasemeter is constructed in the specifications of the frame instrument
AuxStart ==
    /\ FQStart
    /\ regs = <<>>
    /\ pm = NoWrite

\* no data-logging, upload or get_buffer call made yet
CallsStart ==
    /\ callargs = NoArgs
    /\ local = <<>>
    /\ remote = [ i |-> <<>>, e |-> <<>> ]
    /\ upcall = NoUpload
    /\ buf = IdleBuf

SideStart ==
    /\ CallsStart
    /\ AuxStart

\* FrameBasedInstrument.__init__: no session; the device idle
DLCoreStart ==
    /\ _dlserial = 0
    /\ tag = <<>>
    /\ chans = NoChans
    /\ logfile = <<>>
    /\ _dlftype = NoFiletype
    /\ _dlskt = 0
    /\ subs = <<>>
    /\ dev = IdleDevice
    /\ dlcall = NoCall
    /\ waiter = IdleWaiter
    /\ session = [ active |-> FALSE, stopped |-> FALSE ]

DLStart ==
    /\ DLCoreStart
    /\ SideStart

InitFrame ==
    /\ FrameStart
    /\ QueueStart
    /\ InstrStart
    /\ DLStart
    /\ frame_class = FALSE
    /\ _queue = _init(1)

\* one call df.add_packet(packet); process_complete() answers hookOK when called
FrameAddPacket ==
    \E packet \in FramePackets, hookOK \in BOOLEAN :
        /\ npackets < MaxPackets
        /\ npackets' = npackets + 1
        /\ dfBefore' = df
        /\ lastPacket' = packet
        /\ df' = add_packet(df, packet, hookOK)
        /\ hist' = IF too_short(packet)
                   THEN hist
                   ELSE Append(hist, [ frameid  |-> unpack_frameid(packet),
                                       chan     |-> ChannelOf(packet),
                                       rejected |-> /\ ~hookOK
                                                    /\ add_packet(df, packet, TRUE).complete ])
        /\ UNCHANGED <<_queue, queueVars, instrVars, dlVars>>

NextFrame == FrameAddPacket

SpecFrame == InitFrame /\ [][NextFrame]_vars

\* ------------------------------------------- SpecQueue: one FrameQueue
\* a FrameQueue(maxsize) for each capacity 1..MaxCap
InitQueue ==
    /\ FrameStart
    /\ QueueStart
    /\ InstrStart
    /\ DLStart
    /\ frame_class = FALSE
    /\ \E n \in 1..MaxCap : _queue = _init(n)

\* a thread calls put(item, block, timeout): put_nowait(item) is put(item, False).
\* With block and a timeout the code reads the undefined name _time: NameError.
QPutCall ==
    \E block \in BOOLEAN, timeout \in {None, 1} :
        /\ putter.pc = "idle"
        /\ nitems < MaxItems
        /\ nitems' = nitems + 1
        /\ LET item == nitems + 1
               call == [ pc |-> "returned", item |-> item, block |-> block,
                         timeout |-> timeout, before |-> _queue.queue,
                         after |-> <<>>, waited |-> FALSE ]
           IN  IF _queue.maxsize > 0 /\ block /\ timeout # None
               THEN /\ putter' = [call EXCEPT !.pc = "raised", !.after = _queue.queue]
                    /\ UNCHANGED _queue
               ELSE IF put_waits(_queue, block)
               THEN /\ putter' = [call EXCEPT !.pc = "wait_not_full", !.waited = TRUE]
                    /\ UNCHANGED _queue
               ELSE /\ _queue' = _put(_queue, item)
                    /\ putter' = [call EXCEPT !.after = _queue'.queue]
        /\ UNCHANGED <<frameVars, instrVars, dlVars, dlVars>>

\* the waiting put is woken by a get's not_full.notify() and puts its item
QPutWake ==
    /\ putter.pc = "wait_not_full"
    /\ ~put_waits(_queue, putter.block)
    /\ _queue' = _put(_queue, putter.item)
    /\ putter' = [putter EXCEPT !.pc = "returned", !.before = _queue.queue,
                                 !.after = _queue'.queue]
    /\ UNCHANGED <<frameVars, instrVars, dlVars, nitems>>

\* the put call is over; the thread may call again
QPutReturn ==
    /\ putter.pc \in {"returned", "raised"}
    /\ putter' = [putter EXCEPT !.pc = "idle"]
    /\ UNCHANGED <<frameVars, instrVars, dlVars, _queue, nitems>>

\* another thread takes the oldest item: Queue.get on a non-empty queue
QGet ==
    /\ _qsize(_queue) > 0
    /\ _queue' = _get(_queue)
    /\ UNCHANGED <<frameVars, instrVars, dlVars, putter, nitems>>

NextQueue == QPutCall \/ QPutWake \/ QPutReturn \/ QGet

SpecQueue == InitQueue /\ [][NextQueue]_vars

\* ------------------------- Spec: the instrument, its worker and a consumer
\* the frames the device sends to the worker, <<frame id, trigger-state id>>:
\* frame 0 acquired under state 0, frame 257 under state 1
DeviceFrames == { <<0, 0>>, <<257, 1>> }

\* the packets the frame transport delivers to the worker: the channel-1 and
\* channel-2 packet of each device frame, with an empty payload; and the short
\* packets
WorkerPackets ==
    { MkPacket(f[1], cb, 1, f[2], 0, 1, footer_len, 170) :
        f \in DeviceFrames, cb \in {0, 16} } \cup ShortPackets

Init ==
    /\ FrameStart
    /\ QueueStart
    /\ InstrStart
    /\ DLStart
    /\ frame_class \in BOOLEAN
    /\ _queue = _init(1)

\* mutant of join_done: set_running(False) does not wait for the thread
join_done_nowait(w) == TRUE

\* self._fr_worker.join() returns once the thread has finished
join_done(w) == w = "exited"

\* set_running(True): _running is set; a thread is started if it was not running
SetRunningTrue ==
    /\ ctl.pc = "idle"
    /\ Len(heap) < MaxFrames
    /\ _running' = TRUE
    /\ worker' = IF ~_running THEN "start" ELSE worker
    /\ UNCHANGED <<frameVars, queueVars, dlVars, _queue, heap, fr, staleq, _stateid,
                   frame_class, ctl, getter, completed, delivered>>

\* set_running(False): _running is cleared; if it was running the thread is joined
SetRunningFalse ==
    /\ ctl.pc = "idle"
    /\ _running' = FALSE
    /\ ctl' = [ctl EXCEPT !.pc = IF _running THEN "join" ELSE "idle"]
    /\ UNCHANGED <<frameVars, queueVars, dlVars, _queue, heap, fr, staleq, _stateid,
                   frame_class, worker, getter, completed, delivered>>

\* the join of set_running(False) returns
JoinReturn ==
    /\ ctl.pc = "join"
    /\ join_done(worker)
    /\ ctl' = [ctl EXCEPT !.pc = "idle"]
    /\ UNCHANGED <<frameVars, queueVars, dlVars, _queue, heap, fr, staleq, _running,
                   _stateid, frame_class, worker, getter, completed, delivered>>

\* the state ids the instrument is committed to during a run
StateIds == {0, 1}

\* the buffer lengths set_buffer_length is called with
BufferLengths == {1, 2}

\* commit(): the committed state id advances
Commit ==
    /\ ctl.pc = "idle"
    /\ (_stateid + 1) % 256 \in StateIds
    /\ _stateid' = (_stateid + 1) % 256
    /\ UNCHANGED <<frameVars, queueVars, dlVars, _queue, heap, fr, staleq, _running,
                   frame_class, worker, ctl, getter, completed, delivered>>

\* flush(): with self._queue.mutex: self._queue.queue.clear()
Flush ==
    /\ ctl.pc = "idle"
    /\ _queue' = queue_clear(_queue)
    /\ UNCHANGED <<frameVars, queueVars, dlVars, heap, fr, staleq, _running, _stateid,
                   frame_class, worker, ctl, getter, completed, delivered>>

\* the consumer is inside FrameQueue.get, holding a queue object
InGet == getter.pc \in {"get", "empty"}

\* set_buffer_length(buflen): self._queue = FrameQueue(maxsize=buflen); a get in
\* progress keeps the queue object it was called on
SetBufferLength ==
    \E buflen \in BufferLengths :
        /\ ctl.pc = "idle"
        /\ _queue' = _init(buflen)
        /\ IF InGet /\ ~getter.onstale
           THEN /\ staleq' = _queue
                /\ getter' = [getter EXCEPT !.onstale = TRUE]
           ELSE UNCHANGED <<staleq, getter>>
        /\ UNCHANGED <<frameVars, queueVars, dlVars, heap, fr, _running, _stateid,
                       frame_class, worker, ctl, completed, delivered>>

\* mutant of while_running: the loop never looks at the flag
while_running_forever(running) == TRUE

\* _frame_worker: the test of `while self._running:`
while_running(running) == running

\* _frame_worker begins: without a frame class it returns at once; otherwise
\* fr = self.frame_class(**self.frame_kwargs)
WorkerStart ==
    /\ worker = "start"
    /\ IF frame_class
       THEN /\ heap' = Append(heap, NewFrame)
            /\ fr' = Len(heap) + 1
            /\ worker' = "while"
       ELSE /\ worker' = "exited"
            /\ UNCHANGED <<heap, fr>>
    /\ UNCHANGED <<frameVars, queueVars, dlVars, _queue, staleq, _running, _stateid,
                   frame_class, ctl, getter, completed, delivered>>

\* while self._running: ... finally: skt.close(). When the thread ends, its
\* local fr, the newest object and referenced nowhere else, is garbage.
WorkerWhile ==
    /\ worker = "while"
    /\ IF while_running(_running)
       THEN worker' = "select" /\ UNCHANGED <<fr, heap>>
       ELSE worker' = "exited" /\ fr' = 0 /\ heap' = SubSeq(heap, 1, Len(heap) - 1)
    /\ UNCHANGED <<frameVars, queueVars, dlVars, _queue, staleq, _running,
                   _stateid, frame_class, ctl, getter, completed, delivered>>

\* zmq.select(..., 1.0) returns without a packet
WorkerSelectTimeout ==
    /\ worker = "select"
    /\ worker' = "while"
    /\ UNCHANGED <<frameVars, queueVars, dlVars, _queue, heap, fr, staleq, _running,
                   _stateid, frame_class, ctl, getter, completed, delivered>>

\* mutant of after_enqueue: the worker goes on with the frame it enqueued
after_enqueue_reuse(h, f) == [ heap |-> h, fr |-> f ]

\* after put_nowait(fr): fr = self.frame_class(**self.frame_kwargs), a new object
after_enqueue(h, f) == [ heap |-> Append(h, NewFrame), fr |-> Len(h) + 1 ]

\* d = skt.recv(); fr.add_packet(d); if fr.complete: put_nowait(fr) and a new frame
Recv(d, hookOK) ==
    LET f2 == add_packet(heap[fr], d, hookOK)
    IN  /\ worker = "select"
        /\ f2.complete => Len(heap) < MaxFrames
        /\ worker' = "while"
        /\ IF f2.complete
           THEN LET n == after_enqueue([heap EXCEPT ![fr] = f2], fr)
                IN  /\ _queue' = _put(_queue, fr)
                    /\ completed' = Append(completed, fr)
                    /\ heap' = n.heap
                    /\ fr' = n.fr
           ELSE /\ heap' = [heap EXCEPT ![fr] = f2]
                /\ UNCHANGED <<_queue, completed, fr>>
        /\ UNCHANGED <<queueVars, dlVars, staleq, _running, _stateid,
                       frame_class, ctl, getter, delivered>>

\* the worker receives a packet: any packet of the transport, and whatever the
\* process hook answers if it is called
WorkerRecv ==
    \E d \in WorkerPackets, hookOK \in BOOLEAN :
        Recv(d, hookOK) /\ UNCHANGED frameVars

\* get_frame(timeout, wait) is called: endtime is computed, the loop is entered
GetFrameCall ==
    \E timeout \in {None, 1}, wait \in BOOLEAN :
        /\ getter.pc = "idle"
        /\ getter' = [IdleGetter EXCEPT !.pc = "while", !.timeout = timeout,
                                        !.wait = wait]
        /\ UNCHANGED <<frameVars, queueVars, dlVars, _queue, heap, fr, staleq, _running,
                       _stateid, frame_class, worker, ctl, completed, delivered>>

\* the get_frame call is over: the consumer holds no queue object any more
Leave(g, result, frame) ==
    [g EXCEPT !.pc = "done", !.result = result, !.frame = frame,
              !.stateid = _stateid, !.onstale = FALSE]

\* while self._running: frame = self._queue.get(...); falling out of the loop
\* returns None
GetFrameWhile ==
    /\ getter.pc = "while"
    /\ getter' = IF _running
                 THEN [getter EXCEPT !.pc = "get", !.onstale = FALSE]
                 ELSE Leave(getter, "None", 0)
    /\ UNCHANGED <<frameVars, queueVars, dlVars, _queue, heap, fr, staleq, _running,
                   _stateid, frame_class, worker, ctl, completed, delivered>>

\* the queue object the get in progress was called on
HeldQueue == IF getter.onstale THEN staleq ELSE _queue

\* Queue.get takes the oldest frame; get_frame returns it if not wait or its
\* trigstate is the committed state id, raises FrameTimeout if time is up, and
\* otherwise discards it and loops
GetFramePop ==
    /\ getter.pc = "get"
    /\ _qsize(HeldQueue) > 0
    /\ LET frame == Head(HeldQueue.queue)
           g == [getter EXCEPT !.popped =
                    Append(@, [frame |-> frame, stateid |-> _stateid])]
           matches == ~getter.wait \/ heap[frame].trigstate = _stateid
       IN  /\ IF getter.onstale
              THEN staleq' = _init(1) /\ UNCHANGED _queue
              ELSE _queue' = _get(_queue) /\ UNCHANGED staleq
           /\ \E expired \in IF getter.timeout = None \/ matches THEN {FALSE} ELSE BOOLEAN :
                getter' = IF matches THEN Leave(g, "frame", frame)
                          ELSE IF expired THEN Leave(g, "FrameTimeout", 0)
                          ELSE [g EXCEPT !.pc = "while", !.onstale = FALSE]
           /\ delivered' = IF matches THEN Append(delivered, frame) ELSE delivered
    /\ UNCHANGED <<frameVars, queueVars, dlVars, heap, fr, _running, _stateid,
                   frame_class, worker, ctl, completed>>

\* Queue.get(timeout=timeout or 1) runs out on an empty queue: Empty is raised
GetFrameEmpty ==
    /\ getter.pc = "get"
    /\ _qsize(HeldQueue) = 0
    /\ getter' = [getter EXCEPT !.pc = "empty"]
    /\ UNCHANGED <<frameVars, queueVars, dlVars, _queue, heap, fr, staleq, _running,
                   _stateid, frame_class, worker, ctl, completed, delivered>>

\* FrameQueue.get: except Empty: if timeout is None: continue, else: raise;
\* get_frame turns Empty into FrameTimeout
GetFrameOnEmpty ==
    /\ getter.pc = "empty"
    /\ IF getter.timeout = None
       THEN getter' = [getter EXCEPT !.pc = "get"] /\ UNCHANGED staleq
       ELSE getter' = Leave(getter, "FrameTimeout", 0) /\ staleq' = _init(1)
    /\ UNCHANGED <<frameVars, queueVars, dlVars, _queue, heap, fr, _running, _stateid,
                   frame_class, worker, ctl, completed, delivered>>

\* the caller of get_frame has its result (or exception) and goes on
GetFrameReturn ==
    /\ getter.pc = "done"
    /\ getter' = IdleGetter
    /\ UNCHANGED <<frameVars, queueVars, dlVars, _queue, heap, fr, staleq, _running,
                   _stateid, frame_class, worker, ctl, completed, delivered>>

ControlNext ==
    SetRunningTrue \/ SetRunningFalse \/ JoinReturn \/ Commit \/ Flush \/ SetBufferLength

WorkerNext == WorkerStart \/ WorkerWhile \/ WorkerSelectTimeout \/ WorkerRecv

GetterNext ==
    GetFrameWhile \/ GetFramePop \/ GetFrameEmpty \/ GetFrameOnEmpty \/ GetFrameReturn

Next == ControlNext \/ WorkerNext \/ GetFrameCall \/ GetterNext

Spec == Init /\ [][Next]_vars

\* the threads are scheduled: a thread that can take a step eventually takes one
\* (the worker, the consumer inside get_frame, the join of set_running)
FairSpec ==
    Spec /\ WF_vars(WorkerNext) /\ WF_vars(GetterNext) /\ WF_vars(JoinReturn)

\* ------------------------------- SpecDL: the data-logging calls of a client
\* `a is 'lit'`: the same str object, which an equal string need not be
str_is(a, lit) == a.literal /\ a.s = lit

\* `a == 'lit'`: the same text
str_eq(a, lit) == a.s = lit

\* the filetype arguments a caller passes: the interned literals, and for 'net'
\* also an equal string built at run time
FileTypes == { [ s |-> t, literal |-> TRUE ] : t \in {"csv", "bin", "net"} }
               \cup { [ s |-> "net", literal |-> FALSE ] }

\* "%04d" % n as its digit characters, n < 10000
Fmt04d(n) == << (n \div 1000) % 10, (n \div 100) % 10, (n \div 10) % 10, n % 10 >>

\* bool(ch1) + bool(ch2)
count_channels(ch1, ch2) == (IF ch1 THEN 1 ELSE 0) + (IF ch2 THEN 1 ELSE 0)

\* _max_stream_rates: the ceiling per filetype for nch channels on the medium
_max_stream_rates(nch, use_sd) ==
    IF nch = 2
    THEN IF use_sd
         THEN [ bin |-> 150000, csv |-> 1000, net |-> 20000, plot |-> 10 ]
         ELSE [ bin |-> 1000000, csv |-> 1000, net |-> 20000, plot |-> 10 ]
    ELSE IF use_sd
         THEN [ bin |-> 250000, csv |-> 3000, net |-> 40000, plot |-> 10 ]
         ELSE [ bin |-> 1000000, csv |-> 3000, net |-> 40000, plot |-> 10 ]

\* _estimate_logsize in quarter bytes (a csv line is 16 + 18.5 per channel + 2
\* characters); nsamples2 is twice duration / timestep, the duration times the
\* rate in half hertz.  No branch for other filetypes: the function returns
\* None
_estimate_logsize(ch1, ch2, nsamples2, filetype) ==
    IF str_is(filetype, "bin")
    THEN nsamples2 * (4 * count_channels(ch1, ch2)) * 2
    ELSE IF str_is(filetype, "csv")
         THEN nsamples2 * (36 + 37 * count_channels(ch1, ch2))
         ELSE None

\* `f < logsize` for f bytes free; an int is not less than None
space_short(f, logsize) == logsize # None /\ 4 * f < logsize

\* datalogger_error(status): the exception it raises, if any; a falsy status
\* (None, or 0) is replaced by the device's current status
status_falsy(status) == status = None \/ status = 0

status_is_error_nobusy(status) ==
    status \in {DL_STATE_INVAL, DL_STATE_FSFULL, DL_STATE_OVERFLOW}

status_is_error(status) ==
    status \in {DL_STATE_INVAL, DL_STATE_FSFULL, DL_STATE_OVERFLOW, DL_STATE_BUSY}

datalogger_error(status, devstatus) ==
    LET s == IF status_falsy(status) THEN devstatus ELSE status
    IN  IF s \in {DL_STATE_NONE, DL_STATE_RUNNING, DL_STATE_WAITING,
                  DL_STATE_STOPPED}
        THEN [ raised |-> "none", err |-> None ]
        ELSE IF status_is_error(s)
             THEN [ raised |-> "StreamException", err |-> s ]
             ELSE [ raised |-> "ValueError", err |-> None ]

\* _dlsub_init: a new SUB socket subscribed to the tag; its index is the handle
_dlsub_init(ss, t) == Append(ss, [ tag |-> t, open |-> TRUE, rx |-> <<>> ])

\* _dlsub_destroy: close the socket the handle refers to, if any
_dlsub_destroy(ss, h) ==
    IF h # 0 THEN [ss EXCEPT ![h] = [@ EXCEPT !.open = FALSE, !.rx = <<>>]]
    ELSE ss

\* the device's answers to _fs_free(mp): free bytes, or the mount point refuses
FreeBytes == {79999, 80000, 600000}

FsResponses == { [ kind |-> "free", f |-> n ] : n \in FreeBytes }
                 \cup { [ kind |-> k, f |-> 0 ] : k \in {"MPReadOnly", "MPNotMounted"} }

\* the device's answers to _stream_prep: with a session in any state but NONE
\* it refuses as BUSY; otherwise it accepts or rejects with a status code
PrepErrs == {DL_STATE_INVAL, DL_STATE_NONE}

PrepResponses(d) ==
    IF d.status # DL_STATE_NONE
    THEN { [ ok |-> FALSE, err |-> DL_STATE_BUSY ] }
    ELSE { [ ok |-> TRUE, err |-> None ] }
         \cup { [ ok |-> FALSE, err |-> e ] : e \in PrepErrs }

\* the device after _stream_prep answered p; asked is the tag of the request,
\* kept whatever the answer
_stream_prep(d, t, filetype, p) ==
    IF p.ok THEN [d EXCEPT !.prepared = TRUE, !.tag = t, !.fname = t,
                           !.net = str_eq(filetype, "net"), !.asked = t]
    ELSE IF p.err = DL_STATE_INVAL
         THEN [d EXCEPT !.status = DL_STATE_INVAL, !.asked = t]
         ELSE [d EXCEPT !.asked = t]

\* the device's answers to _stream_start: it starts the prepared stream or
\* refuses
StartResponses == { [ ok |-> TRUE, err |-> None ],
                    [ ok |-> FALSE, err |-> DL_STATE_INVAL ] }

\* the device after _stream_start answered r
_stream_start(d, r) ==
    IF r.ok THEN [d EXCEPT !.status = DL_STATE_RUNNING, !.prepared = FALSE,
                           !.streams = @ + 1, !.sent = 0]
    ELSE d

\* the device after _stream_stop: the session's state is discarded
_stream_stop(d) == [d EXCEPT !.status = DL_STATE_NONE, !.prepared = FALSE,
                             !.net = FALSE, !.tag = <<>>, !.asked = <<>>]

\* dataparser: the samples of a raw payload, scaled by the coefficient
parse(raw, coeff) == [ i \in 1..Len(raw) |-> raw[i] * coeff ]

\* the client-side session state as one value
Client == [ _dlserial |-> _dlserial, tag |-> tag, chans |-> chans,
            logfile |-> logfile, _dlftype |-> _dlftype, _dlskt |-> _dlskt ]

\* whether the call made the step named x
InTrace(trace, x) == \E i \in 1..Len(trace) : trace[i] = x

\* an API call ends (returns, or raises result): the client state c, the
\* sockets s and the device d are what it leaves; the call is recorded, with
\* the serial it found (serial0)
Return(op, result, err, trace, filetype, c, s, d) ==
    /\ _dlserial' = c._dlserial
    /\ tag' = c.tag
    /\ chans' = c.chans
    /\ logfile' = c.logfile
    /\ _dlftype' = c._dlftype
    /\ _dlskt' = c._dlskt
    /\ subs' = s
    /\ dev' = d
    /\ dlcall' = [ op |-> op, result |-> result, err |-> err, trace |-> trace,
                   net |-> str_eq(filetype, "net"),
                   changed |-> { f \in DOMAIN Client : c[f] # Client[f] },
                   streams |-> d.streams - dev.streams,
                   active |-> session.active, stopped |-> session.stopped,
                   serial0 |-> _dlserial ]
    /\ session' =
          [ active |-> IF op = "datalogger_stop" /\ result = "ok" THEN FALSE
                       ELSE IF InTrace(trace, "_stream_start") /\ result = "ok"
                       THEN TRUE
                       ELSE session.active,
            stopped |-> IF op = "datalogger_stop" /\ result = "ok" THEN TRUE
                        ELSE IF InTrace(trace, "_stream_prep") THEN FALSE
                        ELSE session.stopped ]
    /\ waiter' = IdleWaiter

\* the mount point check of both start calls: _fs_free, the size estimate and
\* the comparison; fs is the device's answer
space_check(fs, ch1, ch2, nsamples2, filetype) ==
    IF fs.kind # "free" THEN fs.kind
    ELSE IF space_short(fs.f, _estimate_logsize(ch1, ch2, nsamples2, filetype))
         THEN "InsufficientSpace"
         ELSE "ok"

\* mutant of opens_subscription: no start opens a subscription
opens_subscription_never(filetype) == FALSE

\* datalogger_start, datalogger_start_single: if filetype == 'net':
\* self._dlsub_init(self.tag), between _stream_prep and _stream_start
opens_subscription(filetype) == str_eq(filetype, "net")

\* the common end of both start calls: _stream_prep, the translation of its
\* exception, _dlsub_init for 'net', _stream_start, the status query for the
\* file name and the recording of the filetype
stream_begin(op, c, trace, filetype, use_sd) ==
    \E p \in PrepResponses(dev) :
        LET d1 == _stream_prep(dev, c.tag, filetype, p)
            t1 == Append(trace, "_stream_prep")
            e  == IF p.ok THEN [ raised |-> "none", err |-> None ]
                  ELSE datalogger_error(p.err, d1.status)
        IN  IF e.raised # "none"
            THEN Return(op, e.raised, e.err, t1, filetype, c, subs, d1)
            ELSE
            LET net == opens_subscription(filetype)
                s2  == IF net THEN _dlsub_init(subs, c.tag) ELSE subs
                c2  == IF net THEN [c EXCEPT !._dlskt = Len(s2)] ELSE c
                t2  == IF net THEN Append(t1, "_dlsub_init") ELSE t1
                t3  == Append(t2, "_stream_start")
            IN  \E r \in StartResponses :
                    LET d3 == _stream_start(d1, r)
                    IN  IF ~r.ok
                        THEN Return(op, "StreamException", r.err, t3, filetype,
                                    c2, s2, d3)
                        ELSE \E answered \in BOOLEAN :
                            IF ~answered
                            THEN Return(op, "NetworkError", None,
                                        Append(t3, "_stream_status"), filetype,
                                        c2, s2, d3)
                            ELSE Return(op, "ok", None,
                                        Append(t3, "_stream_status"), filetype,
                                        [c2 EXCEPT !.logfile = d3.fname,
                                                   !._dlftype = filetype],
                                        s2, d3)

\* the values the session serial takes
Serials == {1, 2}

\* mutant of begin_session: the serial is read but not advanced
begin_session_same(ch1, ch2) ==
    [Client EXCEPT !.tag = Fmt04d(_dlserial),
                   !.chans = [ ch1 |-> ch1, ch2 |-> ch2,
                               nch |-> count_channels(ch1, ch2) ]]

\* the state a start call leaves in self before its first check that follows
\* `self._dlserial += 1`
begin_session(ch1, ch2) ==
    [Client EXCEPT !._dlserial = @ + 1,
                   !.tag = Fmt04d(_dlserial + 1),
                   !.chans = [ ch1 |-> ch1, ch2 |-> ch2,
                               nch |-> count_channels(ch1, ch2) ]]

\* `math.floor(1.0 / self.timestep) > maxrates[filetype]`; rate2 is the sample
\* rate 1 / timestep in units of half a hertz
rate_too_high_ge(rate2, ceiling) == rate2 \div 2 >= ceiling

rate_too_high(rate2, ceiling) == rate2 \div 2 > ceiling

\* `self.x_mode != _instrument.ROLL`
not_roll_never(x_mode) == FALSE

not_roll(x_mode) == x_mode # "ROLL"

\* what a start call reads: its arguments ch1, ch2, duration, start, use_sd,
\* filetype; whether the instrument is deployed; the instrument's rate2,
\* x_mode and strs (all four descriptor strings are non-empty); and fs, the
\* device's answer to _fs_free
StartArgs(channels, filetypes, rates, answers) ==
    [ ch1 : channels, ch2 : channels, duration : {0, 10}, deployed : BOOLEAN,
      start : {0, 1}, use_sd : BOOLEAN, filetype : filetypes, rate2 : rates,
      x_mode : {"ROLL", "SWEEP"}, strs : BOOLEAN, fs : answers ]

\* datalogger_start(start, duration, use_sd, ch1, ch2, filetype)
datalogger_start(a) ==
    LET op == "datalogger_start" IN
    IF ~(a.ch1 \/ a.ch2) \/ a.duration <= 0
    THEN Return(op, "InvalidOperationException", None, <<>>, NoFiletype,
                Client, subs, dev)
    ELSE IF ~a.deployed
    THEN Return(op, "NotDeployedException", None, <<>>, NoFiletype,
                Client, subs, dev)
    ELSE
    LET c == begin_session(a.ch1, a.ch2)
        maxrates == _max_stream_rates(c.chans.nch, a.use_sd)
    IN
    IF \/ a.start # 0
       \/ rate_too_high(a.rate2, maxrates[a.filetype.s])
       \/ not_roll(a.x_mode)
       \/ ~a.strs
    THEN Return(op, "InvalidOperationException", None, <<>>, a.filetype,
                c, subs, dev)
    ELSE
    LET sp == space_check(a.fs, a.ch1, a.ch2, a.duration * a.rate2, a.filetype)
    IN  IF sp # "ok"
        THEN Return(op, sp, None, <<"_fs_free">>, a.filetype, c, subs, dev)
        ELSE stream_begin(op, c, <<"_fs_free", "commit">>, a.filetype,
                          a.use_sd)

\* datalogger_start_single(use_sd, ch1, ch2, filetype); the size estimate is
\* for 2**14 samples, whatever the timestep
datalogger_start_single(a) ==
    LET op == "datalogger_start_single" IN
    IF ~(a.ch1 \/ a.ch2)
    THEN Return(op, "InvalidOperationException", None, <<>>, NoFiletype,
                Client, subs, dev)
    ELSE IF ~a.deployed
    THEN Return(op, "NotDeployedException", None, <<>>, NoFiletype,
                Client, subs, dev)
    ELSE
    LET c == begin_session(a.ch1, a.ch2)
    IN
    IF ~a.strs
    THEN Return(op, "InvalidOperationException", None, <<>>, a.filetype,
                c, subs, dev)
    ELSE
    LET sp == space_check(a.fs, a.ch1, a.ch2, 2 * 16384, a.filetype)
    IN  IF sp # "ok"
        THEN Return(op, sp, None, <<"_fs_free">>, a.filetype, c, subs, dev)
        ELSE stream_begin(op, c, <<"_fs_free">>, a.filetype, a.use_sd)

\* the calls of the session runs: rates on either side of the 1000 Hz ceiling,
\* both channels or none
Rates == {2000, 2002}

\* whether a start call fails one of the checks on its arguments and settings
faulty(a) ==
    \/ ~(a.ch1 \/ a.ch2)
    \/ a.duration <= 0
    \/ ~a.deployed
    \/ a.start # 0
    \/ a.x_mode # "ROLL"
    \/ ~a.strs

NominalArgs ==
    { a \in StartArgs({TRUE}, FileTypes, Rates, FsResponses) : ~faulty(a) }

\* the nominal calls of the session runs log to internal storage: at these
\* rates the two media have the same ceilings, and SpecCalls makes the calls
\* to the SD card
SessionArgs == { a \in NominalArgs : ~a.use_sd }

\* the calls that fail a check: one argument or setting of a nominal call
\* is changed
FaultyArgs ==
    LET n == [ ch1 |-> TRUE, ch2 |-> TRUE, duration |-> 10, deployed |-> TRUE,
               start |-> 0, use_sd |-> FALSE, rate2 |-> 2000,
               x_mode |-> "ROLL", strs |-> TRUE,
               fs |-> [ kind |-> "free", f |-> 600000 ] ]
    IN  UNION { { [ch1 |-> FALSE, ch2 |-> FALSE] @@ m,
                  [duration |-> 0] @@ m,
                  [deployed |-> FALSE] @@ m,
                  [start |-> 1] @@ m,
                  [x_mode |-> "SWEEP"] @@ m,
                  [strs |-> FALSE] @@ m }
                : m \in { [filetype |-> t] @@ n : t \in FileTypes } }

DataloggerStart ==
    /\ waiter.pc \in {"idle", "done"}
    /\ _dlserial + 1 \in Serials
    /\ \E a \in SessionArgs \cup FaultyArgs : datalogger_start(a)

DataloggerStartSingle ==
    /\ waiter.pc \in {"idle", "done"}
    /\ _dlserial + 1 \in Serials
    /\ \E a \in SessionArgs \cup FaultyArgs : datalogger_start_single(a)

\* datalogger_stop(): _stream_stop, then _dlsub_destroy
DataloggerStop ==
    /\ waiter.pc \in {"idle", "done"}
    /\ \E deployed \in BOOLEAN :
        IF ~deployed
        THEN Return("datalogger_stop", "NotDeployedException", None, <<>>,
                    NoFiletype, Client, subs, dev)
        ELSE Return("datalogger_stop", "ok", dev.status,
                    <<"_stream_stop", "_dlsub_destroy">>, NoFiletype,
                    [Client EXCEPT !._dlskt = 0],
                    _dlsub_destroy(subs, _dlskt), _stream_stop(dev))

\* the sample messages of a stream tagged t: the header fields tag, channel,
\* start index, coefficient, and the payload; channel -1 is the sentinel
Sentinel(t) == [ tag |-> t, ch |-> -1, start |-> 0, coeff |-> 0, data |-> <<>> ]

SampleMsgs(t) == { [ tag |-> t, ch |-> 0, start |-> 0, coeff |-> 1, data |-> <<1, 2>> ],
                   [ tag |-> t, ch |-> 1, start |-> 0, coeff |-> 2, data |-> <<3>> ] }

\* a SUB socket takes the messages that begin with the text it subscribed to
IsPrefix(a, b) == Len(a) <= Len(b) /\ SubSeq(b, 1, Len(a)) = a

deliver(ss, m) ==
    [ i \in 1..Len(ss) |->
        IF ss[i].open /\ IsPrefix(ss[i].tag, m.tag)
        THEN [ss[i] EXCEPT !.rx = Append(@, m)]
        ELSE ss[i] ]

\* the device publishes a message of its net stream
DevPublish ==
    /\ dev.net
    /\ dev.status \notin {DL_STATE_NONE, DL_STATE_INVAL}
    /\ dev.sent < MaxMsgs
    /\ \E m \in SampleMsgs(dev.tag) \cup {Sentinel(dev.tag)} :
        /\ subs' = deliver(subs, m)
        /\ dev' = [dev EXCEPT !.sent = @ + 1]
    /\ dlcall' = NoCall
    /\ waiter' = IF waiter.pc = "done" THEN IdleWaiter ELSE waiter
    /\ UNCHANGED <<clientVars, session>>

\* the device's stream ends: completed, or terminated early
DevFinish ==
    /\ dev.status = DL_STATE_RUNNING
    /\ \E s \in {DL_STATE_STOPPED, DL_STATE_FSFULL, DL_STATE_OVERFLOW} :
        dev' = [dev EXCEPT !.status = s]
    /\ dlcall' = NoCall
    /\ waiter' = IF waiter.pc = "done" THEN IdleWaiter ELSE waiter
    /\ UNCHANGED <<clientVars, subs, session>>

\* datalogger_wait(timeout, upload): the dispatch on the recorded filetype
WaitCall ==
    /\ waiter.pc \in {"idle", "done"}
    /\ \E timeout \in {None, 1}, upload \in BOOLEAN :
        LET w == [IdleWaiter EXCEPT !.timeout = timeout, !.upload = upload]
        IN  waiter' =
              IF str_is(_dlftype, "net")
              THEN \* datalogger_wait_net(timeout): the filetype is not None
                   \* and == 'net'
                   [w EXCEPT !.pc = "net_error", !.upload = FALSE]
              ELSE IF str_eq(_dlftype, "csv") \/ str_eq(_dlftype, "bin")
              THEN [w EXCEPT !.pc = "file_completed"]
              ELSE [w EXCEPT !.pc = "done",
                             !.result = "InvalidOperationException"]
    /\ dlcall' = NoCall
    /\ UNCHANGED <<clientVars, subs, dev, session>>

\* datalogger_wait_net, top of the loop: datalogger_error(), then
\* datalogger_get_samples up to its select
WaitNetError ==
    /\ waiter.pc = "net_error"
    /\ LET e == datalogger_error(None, dev.status)
       IN  waiter' =
             IF e.raised # "none"
             THEN [waiter EXCEPT !.pc = "done", !.result = e.raised]
             ELSE IF _dlskt = 0
             THEN [waiter EXCEPT !.pc = "done",
                                 !.result = "InvalidOperationException"]
             ELSE [waiter EXCEPT !.pc = "net_select"]
    /\ dlcall' = NoCall
    /\ UNCHANGED <<clientVars, subs, dev, session>>

\* `if ch == -1` in _dl_get_samples_raw: the end-of-stream message
is_sentinel_never(ch) == FALSE

is_sentinel(ch) == ch = -1

\* the channel number datalogger_get_samples returns for header channel ch
returned_channel_same(ch) == ch

returned_channel(ch) == ch + 1

\* a message is there: _dl_get_samples_raw receives it; the sentinel raises
\* NoDataException, which ends datalogger_wait_net with the dict; any other is
\* parsed and collated
WaitNetRecv ==
    /\ waiter.pc = "net_select"
    /\ subs[_dlskt].rx # <<>>
    /\ LET m == Head(subs[_dlskt].rx)
           ch == returned_channel(m.ch)
           samples == parse(m.data, m.coeff)
           w == [waiter EXCEPT !.consumed = Append(@, m)]
       IN  /\ subs' = [subs EXCEPT ![_dlskt].rx = Tail(@)]
           /\ waiter' =
                IF is_sentinel(m.ch)
                THEN [w EXCEPT !.pc = "done", !.result = "dict"]
                ELSE [w EXCEPT !.pc = "net_error",
                               !.ch1 = IF ch = 1 THEN @ \o samples ELSE @,
                               !.ch2 = IF ch = 2 THEN @ \o samples ELSE @]
    /\ dlcall' = NoCall
    /\ UNCHANGED <<clientVars, dev, session>>

\* no message within the timeout: FrameTimeout; without a timeout the select
\* goes on waiting
WaitNetTimeout ==
    /\ waiter.pc = "net_select"
    /\ subs[_dlskt].rx = <<>>
    /\ waiter.timeout # None
    /\ waiter' = [waiter EXCEPT !.pc = "done", !.result = "FrameTimeout"]
    /\ dlcall' = NoCall
    /\ UNCHANGED <<clientVars, subs, dev, session>>

\* datalogger_wait_file, the loop condition: datalogger_completed() queries the
\* status, translates it and answers whether the session is over; then the
\* upload if asked for, and None is returned
WaitFileCompleted ==
    /\ waiter.pc = "file_completed"
    /\ LET status == dev.status
           e == datalogger_error(status, dev.status)
       IN  \E uploaded \in BOOLEAN :
           waiter' =
             IF e.raised # "none"
             THEN [waiter EXCEPT !.pc = "done", !.result = e.raised]
             ELSE IF status \in {DL_STATE_RUNNING, DL_STATE_WAITING}
             THEN [waiter EXCEPT !.pc = "file_error"]
             ELSE IF waiter.upload /\ ~uploaded
             THEN [waiter EXCEPT !.pc = "done",
                                 !.result = "InvalidOperationException"]
             ELSE [waiter EXCEPT !.pc = "done", !.result = "None"]
    /\ dlcall' = NoCall
    /\ UNCHANGED <<clientVars, subs, dev, session>>

\* datalogger_wait_file, the loop body: datalogger_error(), then the sleep
WaitFileError ==
    /\ waiter.pc = "file_error"
    /\ LET e == datalogger_error(None, dev.status)
       IN  waiter' =
             IF e.raised # "none"
             THEN [waiter EXCEPT !.pc = "done", !.result = e.raised]
             ELSE [waiter EXCEPT !.pc = "file_completed"]
    /\ dlcall' = NoCall
    /\ UNCHANGED <<clientVars, subs, dev, session>>

\* datalogger_get_samples(timeout) called by the client itself: without a
\* subscription it raises InvalidOperationException; with a message there it
\* receives that message; with none it raises FrameTimeout when the timeout
\* expires, and goes on waiting without one.  The call is recorded with the
\* sockets as they were before it.
DataloggerGetSamples ==
    /\ waiter.pc \in {"idle", "done"}
    /\ \E timeout \in {None, 1} :
        LET ret(result, value) ==
                [ op |-> "datalogger_get_samples", result |-> result,
                  err |-> None, trace |-> <<>>, net |-> FALSE, changed |-> {},
                  streams |-> 0, active |-> session.active,
                  stopped |-> session.stopped, timeout |-> timeout,
                  skt |-> _dlskt, before |-> subs, value |-> value,
                  serial0 |-> _dlserial ]
        IN  IF _dlskt = 0
            THEN /\ dlcall' = ret("InvalidOperationException", <<>>)
                 /\ subs' = subs
            ELSE IF subs[_dlskt].rx # <<>>
            THEN LET m == Head(subs[_dlskt].rx)
                 IN  /\ subs' = [subs EXCEPT ![_dlskt].rx = Tail(@)]
                     /\ dlcall' =
                          IF is_sentinel(m.ch)
                          THEN ret("NoDataException", <<>>)
                          ELSE ret("ok", << returned_channel(m.ch), m.start,
                                            parse(m.data, m.coeff) >>)
            ELSE /\ timeout # None
                 /\ dlcall' = ret("FrameTimeout", <<>>)
                 /\ subs' = subs
    /\ waiter' = IdleWaiter
    /\ UNCHANGED <<clientVars, dev, session>>

InitDL ==
    /\ FrameStart
    /\ QueueStart
    /\ InstrStart
    /\ DLStart
    /\ frame_class = FALSE
    /\ _queue = _init(1)

NextDL ==
    \/ (DataloggerStart /\ UNCHANGED <<frameVars, _queue, queueVars, instrVars, sideVars>>)
    \/ (DataloggerStartSingle /\ UNCHANGED <<frameVars, _queue, queueVars, instrVars, sideVars>>)
    \/ (DataloggerStop /\ UNCHANGED <<frameVars, _queue, queueVars, instrVars, sideVars>>)
    \/ (DataloggerGetSamples /\ UNCHANGED <<frameVars, _queue, queueVars, instrVars, sideVars>>)
    \/ (WaitCall /\ UNCHANGED <<frameVars, _queue, queueVars, instrVars, sideVars>>)
    \/ (WaitNetError /\ UNCHANGED <<frameVars, _queue, queueVars, instrVars, sideVars>>)
    \/ (WaitNetRecv /\ UNCHANGED <<frameVars, _queue, queueVars, instrVars, sideVars>>)
    \/ (WaitNetTimeout /\ UNCHANGED <<frameVars, _queue, queueVars, instrVars, sideVars>>)
    \/ (WaitFileCompleted /\ UNCHANGED <<frameVars, _queue, queueVars, instrVars, sideVars>>)
    \/ (WaitFileError /\ UNCHANGED <<frameVars, _queue, queueVars, instrVars, sideVars>>)
    \/ (DevPublish /\ UNCHANGED <<frameVars, _queue, queueVars, instrVars, sideVars>>)
    \/ (DevFinish /\ UNCHANGED <<frameVars, _queue, queueVars, instrVars, sideVars>>)

SpecDL == InitDL /\ [][NextDL]_vars

\* ----------------------------------------------------------- SpecCalls
\* One call on a client that has made none, against a device whose stream
\* status is whatever an earlier client left; the call's arguments are kept.

\* the status codes the device reports
DlStates == DL_STATE_NONE..DL_STATE_STOPPED

\* the ceilings of the rate table
Ceilings ==
    { _max_stream_rates(n, sd)[t] :
        n \in 1..2, sd \in BOOLEAN, t \in {"bin", "csv", "net"} }

\* rates around each ceiling c, in half hertz: c - 1, c, c + 0.5, c + 1
BoundaryRates == UNION { {2 * c - 2, 2 * c, 2 * c + 1, 2 * c + 2} : c \in Ceilings }

\* the filetype strings of the calls: the literals, and equal strings that are
\* other objects
CallFileTypes == FileTypes \cup { [ s |-> "bin", literal |-> FALSE ] }

CallArgs == StartArgs(BOOLEAN, CallFileTypes, BoundaryRates \cup Rates, FsResponses)

\* datalogger_error(status) on a deployed instrument; _stream_status is the
\* query behind datalogger_status
CallError ==
    /\ callargs.op = "none"
    /\ \E s \in {None} \cup DlStates \cup {DL_STATE_STOPPED + 1} :
        LET e == datalogger_error(s, dev.status)
        IN  /\ Return("datalogger_error",
                      IF e.raised = "none" THEN "ok" ELSE e.raised, e.err,
                      IF status_falsy(s) THEN <<"_stream_status">> ELSE <<>>,
                      NoFiletype, Client, subs, dev)
            /\ callargs' = [ op |-> "datalogger_error", status |-> s ]

CallStart ==
    /\ callargs.op = "none"
    /\ \E a \in CallArgs :
        /\ datalogger_start(a)
        /\ callargs' = [ op |-> "datalogger_start", a |-> a ]

CallStartSingle ==
    /\ callargs.op = "none"
    /\ \E a \in NominalArgs \cup FaultyArgs :
        /\ datalogger_start_single(a)
        /\ callargs' = [ op |-> "datalogger_start_single", a |-> a ]

InitCalls ==
    /\ FrameStart
    /\ QueueStart
    /\ InstrStart
    /\ frame_class = FALSE
    /\ _queue = _init(1)
    /\ _dlserial = 0
    /\ tag = <<>>
    /\ chans = NoChans
    /\ logfile = <<>>
    /\ _dlftype = NoFiletype
    /\ _dlskt = 0
    /\ subs = <<>>
    /\ dev \in { [IdleDevice EXCEPT !.status = st] : st \in DlStates }
    /\ dlcall = NoCall
    /\ waiter = IdleWaiter
    /\ session = [ active |-> FALSE, stopped |-> FALSE ]
    /\ SideStart

NextCalls ==
    \/ (CallError /\ UNCHANGED <<frameVars, _queue, queueVars, instrVars, local, remote, upcall, buf, auxVars>>)
    \/ (CallStart /\ UNCHANGED <<frameVars, _queue, queueVars, instrVars, local, remote, upcall, buf, auxVars>>)
    \/ (CallStartSingle /\ UNCHANGED <<frameVars, _queue, queueVars, instrVars, local, remote, upcall, buf, auxVars>>)

SpecCalls == InitCalls /\ [][NextCalls]_vars

\* ---------------------------------------------------------- SpecUpload
\* The upload calls, the working directory and the device's files.  A file
\* name is its base name followed by the numbers of the "-%d" suffixes added to
\* it: <<"a">> is a, <<"a", 1>> is a-1.  A file's content is a number, and no
\* two files are created with the same content.  self.logfile is "mp:base",
\* here <<mp, base>>.

MaxFiles == 2
MaxUploads == 2

BaseNames == {"a", "b"}

\* the names the device gives its files
DeviceNames == { <<b>> : b \in BaseNames } \cup { <<"a", 1>> }

\* the working directories the first call can find
LocalDirs ==
    { [ n \in ns |-> CHOOSE k \in 1..3 : <<<<"a">>, <<"a", 1>>, <<"b">>>>[k] = n ]
        : ns \in SUBSET DeviceNames }

\* datalogger_filename(); "None" stands for None among names
datalogger_filename(lf) == IF lf # <<>> THEN lf[2] ELSE "None"

\* str(f[0]).startswith(target)
startswith(name, target) == name[1] = target

\* re.match(self.logname + ".*\.[a-z]{2,3}", f[0]): every log file of the
\* instrument, whatever its session
logname_match(name) == name[1] \in BaseNames

\* os.path.exists
path_exists(dir, name) == name \in DOMAIN dir

\* `i = 1; while os.path.exists(f[0] + ("-%d" % i)): i += 1`
free_suffix_one(dir, name) == 1

free_suffix(dir, name) ==
    CHOOSE i \in 1..(Cardinality(DOMAIN dir) + 1) :
        /\ ~path_exists(dir, Append(name, i))
        /\ \A j \in 1..(i - 1) : path_exists(dir, Append(name, j))

\* os.rename(src, dst): dst is replaced if it exists
os_rename(dir, src, dst) ==
    [ m \in (DOMAIN dir \ {src}) \cup {dst} |->
        IF m = dst THEN dir[src] ELSE dir[m] ]

\* _receive_file(mp, name, 0): the whole file is written to the working
\* directory under its device name
_receive_file(dir, name, content) ==
    [ m \in DOMAIN dir \cup {name} |-> IF m = name THEN content ELSE dir[m] ]

\* the loop body of datalogger_upload over the listing of one mount point;
\* st is the working directory, what was done so far and the count of uploads
RECURSIVE upload_listing(_, _, _)
upload_listing(st, files, target) ==
    IF files = <<>> THEN st
    ELSE
    LET f == Head(files) IN
    IF ~startswith(f.name, target)
    THEN upload_listing(st, Tail(files), target)
    ELSE
    LET clash == path_exists(st.dir, f.name)
        dst   == Append(f.name, free_suffix(st.dir, f.name))
        d1    == IF clash THEN os_rename(st.dir, f.name, dst) ELSE st.dir
        e1    == IF clash
                 THEN Append(st.events, [ e |-> "rename", name |-> f.name,
                                          dst |-> dst, names |-> DOMAIN st.dir ])
                 ELSE st.events
        d2    == _receive_file(d1, f.name, f.content)
        e2    == Append(e1, [ e |-> "fetch", name |-> f.name, dst |-> f.name,
                              names |-> DOMAIN d1 ])
    IN  upload_listing([ dir |-> d2, events |-> e2, uploaded |-> st.uploaded + 1 ],
                       Tail(files), target)

\* the loop body of datalogger_upload_all over the listing of one mount point
RECURSIVE upload_all_listing(_, _)
upload_all_listing(st, files) ==
    IF files = <<>> THEN st
    ELSE
    LET f == Head(files) IN
    IF ~logname_match(f.name)
    THEN upload_all_listing(st, Tail(files))
    ELSE
    LET d2 == _receive_file(st.dir, f.name, f.content)
        e2 == Append(st.events, [ e |-> "fetch", name |-> f.name,
                                  dst |-> f.name, names |-> DOMAIN st.dir ])
    IN  upload_all_listing([ dir |-> d2, events |-> e2,
                             uploaded |-> st.uploaded + 1 ], Tail(files))

\* _fs_list(mp): the listing, or MPNotMounted (an empty pass of the loop)
_fs_list(mp, mounted) == IF mp \in mounted THEN remote[mp] ELSE <<>>

\* an upload call ends
UploadReturn(op, result, st) ==
    /\ local' = st.dir
    /\ upcall' = [ op |-> op, result |-> result, events |-> st.events,
                   before |-> local, n |-> upcall.n + 1 ]
    /\ UNCHANGED <<remote, callargs, buf, auxVars, dlVarsCore>>

\* datalogger_upload()
DataloggerUpload ==
    /\ upcall.n < MaxUploads
    /\ \E deployed \in BOOLEAN, mounted \in SUBSET {"i", "e"} :
        LET op == "datalogger_upload"
            st0 == [ dir |-> local, events |-> <<>>, uploaded |-> 0 ]
            target == datalogger_filename(logfile)
        IN
        IF ~deployed THEN UploadReturn(op, "NotDeployedException", st0)
        ELSE IF target = "None"
        THEN UploadReturn(op, "InvalidOperationException", st0)
        ELSE
        LET st1 == upload_listing(st0, _fs_list("i", mounted), target)
            st2 == upload_listing(st1, _fs_list("e", mounted), target)
        IN  UploadReturn(op, IF st2.uploaded = 0
                             THEN "InvalidOperationException" ELSE "ok", st2)

\* datalogger_upload_all()
DataloggerUploadAll ==
    /\ upcall.n < MaxUploads
    /\ \E deployed \in BOOLEAN, mounted \in SUBSET {"i", "e"} :
        LET op == "datalogger_upload_all"
            st0 == [ dir |-> local, events |-> <<>>, uploaded |-> 0 ]
        IN
        IF ~deployed THEN UploadReturn(op, "NotDeployedException", st0)
        ELSE
        LET st1 == upload_all_listing(st0, _fs_list("e", mounted))
            st2 == upload_all_listing(st1, _fs_list("i", mounted))
        IN  UploadReturn(op, IF st2.uploaded = 0
                             THEN "InvalidOperationException" ELSE "ok", st2)

\* the device closes a log file on one of its mount points; the file is new
\* to that mount point
DevLogFile ==
    /\ Len(remote.i) + Len(remote.e) < MaxFiles
    /\ \E mp \in {"i", "e"}, name \in DeviceNames :
        /\ \A k \in 1..Len(remote[mp]) : remote[mp][k].name # name
        /\ remote' = [remote EXCEPT ![mp] =
                        Append(@, [ name |-> name,
                                    content |-> 10 + Len(remote.i) + Len(remote.e) ])]
    /\ upcall' = [ NoUpload EXCEPT !.n = upcall.n ]
    /\ UNCHANGED <<local, callargs, buf, auxVars, dlVarsCore>>

InitUpload ==
    /\ FrameStart
    /\ QueueStart
    /\ InstrStart
    /\ frame_class = FALSE
    /\ _queue = _init(1)
    /\ _dlserial = 0
    /\ tag = <<>>
    /\ chans = NoChans
    /\ logfile \in { <<>>, <<"i", "a">> }
    /\ _dlftype = NoFiletype
    /\ _dlskt = 0
    /\ subs = <<>>
    /\ dev = IdleDevice
    /\ dlcall = NoCall
    /\ waiter = IdleWaiter
    /\ session = [ active |-> FALSE, stopped |-> FALSE ]
    /\ callargs = NoArgs
    /\ local \in LocalDirs
    /\ remote = [ i |-> <<>>, e |-> <<>> ]
    /\ upcall = NoUpload
    /\ buf = IdleBuf
    /\ AuxStart

NextUpload ==
    \/ (DataloggerUpload /\ UNCHANGED <<frameVars, _queue, queueVars, instrVars>>)
    \/ (DataloggerUploadAll /\ UNCHANGED <<frameVars, _queue, queueVars, instrVars>>)
    \/ (DevLogFile /\ UNCHANGED <<frameVars, _queue, queueVars, instrVars>>)

SpecUpload == InitUpload /\ [][NextUpload]_vars

\* ------------------------------------------------------------- SpecBuf
\* One get_buffer call: the client's steps, the device's stream, and the
\* get_frame call at its end.  No worker thread runs: the frame queue holds
\* what it held when the call began.

\* what get_buffer passes to datalogger_start_single (filetype='net', the
\* other arguments at their defaults) and what that call finds
BufArgs ==
    { [ ch1 |-> TRUE, ch2 |-> TRUE, use_sd |-> FALSE,
        filetype |-> [ s |-> "net", literal |-> TRUE ],
        deployed |-> d, strs |-> s, fs |-> f ]
        : d \in BOOLEAN, s \in BOOLEAN, f \in FsResponses }

\* set_pause(True); commit(); datalogger_start_single(filetype='net'); an
\* exception of the start leaves get_buffer
GetBufferCall ==
    /\ buf.pc = "idle"
    /\ waiter.pc = "idle"
    /\ _dlserial + 1 \in Serials
    /\ (_stateid + 1) % 256 \in StateIds
    /\ _stateid' = (_stateid + 1) % 256
    /\ \E timeout \in {None, 1}, a \in BufArgs :
        /\ datalogger_start_single(a)
        /\ buf' = LET b == [IdleBuf EXCEPT
                              !.timeout = timeout,
                              !.trace = <<"set_pause", "commit",
                                          "datalogger_start_single">>,
                              !.started = IF dlcall'.net THEN "single net"
                                          ELSE "single file",
                              !.skt = _dlskt']
                  IN  IF dlcall'.result = "ok"
                      THEN [b EXCEPT !.pc = "samples"]
                      ELSE [b EXCEPT !.pc = "done", !.result = dlcall'.result]
    /\ UNCHANGED <<frameVars, _queue, queueVars, heap, fr, staleq, _running,
                   frame_class, worker, ctl, getter, completed, delivered,
                   callargs, local, remote, upcall, auxVars>>

\* the loop: datalogger_get_samples() without a timeout takes the next
\* message when there is one; its samples go to ch1 or ch2; the sentinel's
\* NoDataException ends the loop and datalogger_stop() is called
GetBufferRecv ==
    /\ buf.pc = "samples"
    /\ _dlskt # 0
    /\ subs[_dlskt].rx # <<>>
    /\ LET m == Head(subs[_dlskt].rx)
           ch == returned_channel(m.ch)
           samples == parse(m.data, m.coeff)
           s1 == [subs EXCEPT ![_dlskt].rx = Tail(@)]
           b == [buf EXCEPT !.consumed = Append(@, m),
                            !.trace = Append(@, "datalogger_get_samples")]
       IN  IF is_sentinel(m.ch)
           THEN /\ buf' = [b EXCEPT !.pc = "frame",
                                    !.trace = Append(@, "datalogger_stop")]
                /\ subs' = _dlsub_destroy(s1, _dlskt)
                /\ _dlskt' = 0
                /\ dev' = _stream_stop(dev)
                /\ session' = [ active |-> FALSE, stopped |-> TRUE ]
           ELSE /\ buf' = [b EXCEPT !.ch1 = IF ch = 1 THEN @ \o samples ELSE @,
                                    !.ch2 = IF ch = 2 THEN @ \o samples ELSE @]
                /\ subs' = s1
                /\ UNCHANGED <<_dlskt, dev, session>>
    /\ dlcall' = NoCall
    /\ UNCHANGED <<frameVars, _queue, queueVars, instrVars, _dlserial, tag,
                   chans, logfile, _dlftype, waiter, callargs, local, remote,
                   upcall, auxVars>>

\* frame = self.get_frame(timeout=timeout, wait=False): the call begins
GetBufferGetFrame ==
    /\ buf.pc = "frame"
    /\ getter.pc = "idle"
    /\ getter' = [IdleGetter EXCEPT !.pc = "while", !.timeout = buf.timeout,
                                    !.wait = FALSE]
    /\ buf' = [buf EXCEPT !.pc = "get_frame", !.trace = Append(@, "get_frame")]
    /\ UNCHANGED <<frameVars, _queue, queueVars, dlVarsCore, heap, fr, staleq,
                   _running, _stateid, frame_class, worker, ctl, completed,
                   delivered, callargs, local, remote, upcall, auxVars>>

\* get_frame is over: FrameTimeout becomes BufferTimeout; a frame gives the
\* DataBuffer with stateid=frame.trigstate; None has no trigstate
GetBufferReturn ==
    /\ buf.pc = "get_frame"
    /\ getter.pc = "done"
    /\ buf' = [buf EXCEPT
                 !.pc = "done",
                 !.popped = getter.popped,
                 !.result = IF getter.result = "FrameTimeout" THEN "BufferTimeout"
                            ELSE IF getter.result = "None" THEN "AttributeError"
                            ELSE "DataBuffer",
                 !.stateid = IF getter.result = "frame"
                             THEN heap[getter.frame].trigstate ELSE None]
    /\ getter' = IdleGetter
    /\ UNCHANGED <<frameVars, _queue, queueVars, dlVarsCore, heap, fr, staleq,
                   _running, _stateid, frame_class, worker, ctl, completed,
                   delivered, callargs, local, remote, upcall, auxVars>>

\* the frames a get_buffer call can find queued, by their trigstate
InitBuf ==
    /\ FrameStart
    /\ QueueStart
    /\ DLStart
    /\ frame_class = TRUE
    /\ \E t \in StateIds : heap = << [NewFrame EXCEPT !.complete = TRUE,
                                                     !.trigstate = t] >>
    /\ _queue \in { _init(1), [ maxsize |-> 1, queue |-> <<1>> ] }
    /\ fr = 0
    /\ staleq = _init(1)
    /\ _running \in BOOLEAN
    /\ _stateid = 0
    /\ worker = "none"
    /\ ctl = [ pc |-> "idle" ]
    /\ getter = IdleGetter
    /\ completed = <<>>
    /\ delivered = <<>>

NextBuf ==
    \/ GetBufferCall
    \/ GetBufferRecv
    \/ GetBufferGetFrame
    \/ GetBufferReturn
    \/ (DevPublish /\ UNCHANGED <<frameVars, _queue, queueVars, instrVars, sideVars>>)
    \/ (DevFinish /\ UNCHANGED <<frameVars, _queue, queueVars, instrVars, sideVars>>)
    \/ GetFrameWhile
    \/ GetFramePop
    \/ GetFrameEmpty
    \/ GetFrameOnEmpty

SpecBuf == InitBuf /\ [][NextBuf]_vars

\* ------------------- SpecFQ: one FrameQueue, its producer and its consumers
\* a FrameQueue(maxsize) for each capacity 1..MaxCap, nothing put yet
InitFQ ==
    /\ FrameStart
    /\ QueueStart
    /\ InstrStart
    /\ DLStart
    /\ frame_class = FALSE
    /\ \E n \in 1..MaxCap : _queue = _init(n)

\* the worker's self._queue.put_nowait(fr): put(item, False) appends under the
\* mutex without waiting; a full deque(maxlen) drops its oldest entry
FQPutNowait ==
    /\ nitems < MaxItems
    /\ nitems' = nitems + 1
    /\ _queue' = _put(_queue, nitems + 1)
    /\ qlog' = [qlog EXCEPT
                  !.evicted = @ \cup (entries(_queue.queue) \ entries(_queue'.queue)),
                  !.justflushed = FALSE]
    /\ UNCHANGED <<frameVars, instrVars, dlVarsCore, callargs, local, remote, upcall,
                   buf, regs, pm, putter, cons>>

\* flush(): the deque is cleared while the queue's mutex is held
FQFlush ==
    /\ _queue' = queue_clear(_queue)
    /\ qlog' = [qlog EXCEPT !.flushed = @ \cup entries(_queue.queue),
                            !.flushmark = nitems,
                            !.justflushed = TRUE]
    /\ UNCHANGED <<frameVars, instrVars, dlVarsCore, callargs, local, remote, upcall,
                   buf, regs, pm, queueVars, cons>>

\* a consumer calls FrameQueue.get(block=True, timeout)
FQGetCall ==
    \E c \in Consumers, timeout \in {None, 1} :
        /\ cons[c].pc = "idle"
        /\ cons' = [cons EXCEPT ![c] = [ pc |-> "get", timeout |-> timeout,
                                         since |-> qlog.flushmark ]]
        /\ qlog' = [qlog EXCEPT !.justflushed = FALSE]
        /\ UNCHANGED <<frameVars, instrVars, dlVarsCore, callargs, local, remote,
                       upcall, buf, regs, pm, queueVars, _queue>>

\* Queue.get finds the queue non-empty: item = self._get() under the mutex
FQGetPop ==
    \E c \in Consumers :
        /\ cons[c].pc = "get"
        /\ _qsize(_queue) > 0
        /\ _queue' = _get(_queue)
        /\ qlog' = [qlog EXCEPT
                      !.returned = Append(@,
                          [ item   |-> popleft(_queue.queue),
                            by     |-> c,
                            since  |-> cons[c].since,
                            oldest |-> \A e \in entries(_queue.queue) :
                                           popleft(_queue.queue) <= e,
                            gone   |-> popleft(_queue.queue) \in
                                           (qlog.evicted \cup qlog.flushed) ]),
                      !.justflushed = FALSE]
        /\ cons' = [cons EXCEPT ![c] = IdleConsumer]
        /\ UNCHANGED <<frameVars, instrVars, dlVarsCore, callargs, local, remote,
                       upcall, buf, regs, pm, queueVars>>

\* Queue.get(timeout=timeout or 1) runs out on an empty queue: with a timeout
\* the Empty is raised to the caller (with timeout None the loop calls again)
FQGetEmpty ==
    \E c \in Consumers :
        /\ cons[c].pc = "get"
        /\ _qsize(_queue) = 0
        /\ cons[c].timeout # None
        /\ cons' = [cons EXCEPT ![c] = IdleConsumer]
        /\ qlog' = [qlog EXCEPT !.justflushed = FALSE]
        /\ UNCHANGED <<frameVars, instrVars, dlVarsCore, callargs, local, remote,
                       upcall, buf, regs, pm, queueVars, _queue>>

NextFQ == FQPutNowait \/ FQFlush \/ FQGetCall \/ FQGetPop \/ FQGetEmpty

SpecFQ == InitFQ /\ [][NextFQ]_vars

\* ---------------- FairStop: the controlling thread and the worker thread
\* set_running, commit, flush and set_buffer_length calls interleaved with the
\* worker; both threads are scheduled (weak fairness as in FairSpec)
NextStop == ControlNext \/ WorkerNext

FairStop ==
    Init /\ [][NextStop]_vars /\ WF_vars(WorkerNext) /\ WF_vars(JoinReturn)

\* -------------------------- FairDL: SpecDL with the waiting client scheduled
\* the client thread inside datalogger_wait_file runs: each poll of the loop
\* is eventually made (the device is under no obligation to finish)
WaitFileNext ==
    (WaitFileCompleted \/ WaitFileError)
        /\ UNCHANGED <<frameVars, _queue, queueVars, instrVars, sideVars>>

FairDL == SpecDL /\ WF_vars(WaitFileNext)

\* ------------------ SpecReg: the Phasemeter's register fields, set_samplerate
\* _pm_reg_handlers, the integer-valued fields: the register, and the
\* to_reg_/from_reg_ pair's signedness, offset and length
Fields ==
    [ control_gain      |-> [ reg |-> REG_PM_CGAIN,    signed |-> TRUE,  offset |-> 0,  len |-> 16 ],
      control_shift     |-> [ reg |-> REG_PM_CGAIN,    signed |-> FALSE, offset |-> 20, len |-> 4 ],
      integrator_shift  |-> [ reg |-> REG_PM_INTSHIFT, signed |-> FALSE, offset |-> 16, len |-> 4 ],
      output_decimation |-> [ reg |-> REG_PM_OUTDEC,   signed |-> FALSE, offset |-> 0,  len |-> 17 ],
      output_shift      |-> [ reg |-> REG_PM_OUTSHIFT, signed |-> FALSE, offset |-> 17, len |-> 5 ],
      bandwidth_ch1     |-> [ reg |-> REG_PM_BW1,      signed |-> TRUE,  offset |-> 0,  len |-> 5 ],
      bandwidth_ch2     |-> [ reg |-> REG_PM_BW2,      signed |-> TRUE,  offset |-> 0,  len |-> 5 ] ]

FieldNames == DOMAIN Fields

\* the registers the fields live in
FieldRegs == { Fields[n].reg : n \in FieldNames }

\* the least and the greatest value a field of this length and signedness holds
field_min(f) == IF f.signed THEN 0 - 2^(f.len - 1) ELSE 0
field_max(f) == IF f.signed THEN 2^(f.len - 1) - 1 ELSE 2^f.len - 1

\* the values written to a field: its extremes, their neighbours outside the
\* range, and one inner value (-1 for a signed field, 1 for an unsigned one)
FieldValues(f) ==
    { field_min(f) - 1, field_min(f), IF f.signed THEN 0 - 1 ELSE 1,
      field_max(f), field_max(f) + 1 }

\* the bits [offset, offset+len) of a register value
window(reg, offset, len) == (reg \div 2^offset) % 2^len

\* to_reg_unsigned(_offset, _len)(obj, val, old): the register with the window
\* replaced by val; None, for the setter to raise ValueOutOfRangeException, if
\* val does not fit
to_reg_unsigned(offset, len, val, old) ==
    IF val < 0 \/ val > 2^len - 1
    THEN None
    ELSE old - window(old, offset, len) * 2^offset + val * 2^offset

\* to_reg_signed(_offset, _len)(obj, val, old): val in two's complement
to_reg_signed(offset, len, val, old) ==
    IF val < 0 - 2^(len - 1) \/ val > 2^(len - 1) - 1
    THEN None
    ELSE to_reg_unsigned(offset, len, IF val < 0 THEN val + 2^len ELSE val, old)

\* from_reg_unsigned(_offset, _len)(obj, reg)
from_reg_unsigned(offset, len, reg) == window(reg, offset, len)

\* mutant of from_reg_signed: the window is read as unsigned
from_reg_signed_raw(offset, len, reg) == window(reg, offset, len)

\* from_reg_signed(_offset, _len)(obj, reg): the window as two's complement
from_reg_signed(offset, len, reg) ==
    LET u == window(reg, offset, len)
    IN  IF u >= 2^(len - 1) THEN u - 2^len ELSE u

\* the attribute's setter and getter, as _register_accessors builds them from
\* the handler tuple of the field
set_attr(name, val, r) ==
    LET f == Fields[name]
    IN  IF f.signed THEN to_reg_signed(f.offset, f.len, val, r[f.reg])
        ELSE to_reg_unsigned(f.offset, f.len, val, r[f.reg])

get_attr(name, r) ==
    LET f == Fields[name]
    IN  IF f.signed THEN from_reg_signed(f.offset, f.len, r[f.reg])
        ELSE from_reg_unsigned(f.offset, f.len, r[f.reg])

\* mutant of ceil_log2: the logarithm is rounded down
floor_log2(num, den) ==
    CHOOSE n \in 0..31 : den * 2^n <= num /\ den * 2^(n + 1) > num

\* math.ceil(math.log(num / den, 2)) for num >= den >= 1: the least n with
\* 2^n >= num / den
ceil_log2(num, den) ==
    CHOOSE n \in 0..31 : den * 2^n >= num /\ (n > 0 => den * 2^(n - 1) < num)

\* min(a, b), max(a, b)
min(a, b) == IF a <= b THEN a ELSE b
max(a, b) == IF a >= b THEN a ELSE b

\* set_samplerate: the rate a request stands for: 'slow' and 'fast' are looked
\* up in _str_to_samplerate, a number is itself
requested_rate(req) ==
    IF req.str = "slow" THEN _PM_LOGRATE_SLOW
    ELSE IF req.str = "fast" THEN _PM_LOGRATE_FAST
    ELSE req.hz

\* set_samplerate:
\*   new_samplerate = _PM_UPDATE_RATE/min(max(1,samplerate),200)
\*   shift = min(math.ceil(math.log(new_samplerate,2)),16)
samplerate_shift(samplerate) ==
    min(ceil_log2(_PM_UPDATE_RATE, min(max(1, samplerate), 200)), 16)

\* the requests set_samplerate is called with: whole rates in Hz around the
\* allowable rates 15.26, 30.5, 61.0 and 122.1 Hz and the clamps, and the names
SamplerateRequests ==
    { [ str |-> "", hz |-> h ] :
        h \in {0, 1, 10, 15, 16, 30, 31, 61, 62, 122, 123, 200, 201, 1000} }
    \cup { [ str |-> n, hz |-> 0 ] : n \in {"slow", "fast"} }

\* a Phasemeter after construction: the mirror of each register holds zero, or
\* ones in its low 24 bits; timestep is not set
InitReg ==
    /\ FrameStart
    /\ QueueStart
    /\ InstrStart
    /\ DLCoreStart
    /\ CallsStart
    /\ FQStart
    /\ frame_class = FALSE
    /\ _queue = _init(1)
    /\ \E old \in {0, 2^24 - 1} : regs = [ r \in FieldRegs |-> old ]
    /\ pm = NoWrite

\* self.<name> = val: the setter packs val into the mirror, or raises
\* ValueOutOfRangeException and leaves the mirror alone
SetField ==
    \E name \in FieldNames :
        \E val \in FieldValues(Fields[name]) :
            LET new == set_attr(name, val, regs)
                ok == new # None
            IN  /\ pm.nsets < MaxSets
                /\ regs' = IF ok THEN [regs EXCEPT ![Fields[name].reg] = new] ELSE regs
                /\ pm' = [pm EXCEPT
                            !.nsets = @ + 1,
                            !.last = [ op |-> "set", name |-> name, value |-> val,
                                       raised |-> IF ok THEN "none"
                                                  ELSE "ValueOutOfRangeException",
                                       before |-> regs ]]

\* set_samplerate(samplerate): output_decimation = 2**shift, output_shift =
\* shift, timestep = 1.0/(_PM_UPDATE_RATE/output_decimation), kept in microseconds
SetSamplerate ==
    \E req \in SamplerateRequests :
        LET shift == samplerate_shift(requested_rate(req))
            r1 == [regs EXCEPT ![REG_PM_OUTDEC] = set_attr("output_decimation", 2^shift, regs)]
            r2 == [r1 EXCEPT ![REG_PM_OUTSHIFT] = set_attr("output_shift", shift, r1)]
        IN  /\ pm.nsets < MaxSets
            /\ regs' = r2
            /\ pm' = [pm EXCEPT
                        !.nsets = @ + 1,
                        !.timestep = get_attr("output_decimation", r2),
                        !.last = [ op |-> "set_samplerate", name |-> req.str,
                                   value |-> requested_rate(req), raised |-> "none",
                                   before |-> regs ]]

NextReg ==
    \/ (SetField /\ UNCHANGED <<frameVars, _queue, queueVars, instrVars, dlVarsCore,
                                callargs, local, remote, upcall, buf, cons, qlog>>)
    \/ (SetSamplerate /\ UNCHANGED <<frameVars, _queue, queueVars, instrVars, dlVarsCore,
                                     callargs, local, remote, upcall, buf, cons, qlog>>)

SpecReg == InitReg /\ [][NextReg]_vars

\* ------------- SpecWorker: the worker thread with its packets written down
\* the worker receives a packet; hist records each packet that was long enough
\* to be applied: its frame id and channel, the frame object it was applied to
\* and whether it was the first one applied to that object, whether the process
\* hook rejected the frame it completed, and whether the frame was enqueued
\* after it
WorkerRecvLogged ==
    \E d \in WorkerPackets, hookOK \in BOOLEAN :
        /\ npackets < MaxPackets
        /\ Recv(d, hookOK)
        /\ npackets' = npackets + 1
        /\ hist' = IF too_short(d)
                   THEN hist
                   ELSE Append(hist,
                          [ frameid  |-> unpack_frameid(d),
                            chan     |-> ChannelOf(d),
                            ref      |-> fr,
                            first    |-> heap[fr].stateid = None,
                            rejected |-> /\ ~hookOK
                                         /\ add_packet(heap[fr], d, TRUE).complete,
                            enqueued |-> add_packet(heap[fr], d, hookOK).complete ])
        /\ UNCHANGED <<df, dfBefore, lastPacket>>

NextWorker ==
    \/ SetRunningTrue
    \/ SetRunningFalse
    \/ JoinReturn
    \/ WorkerStart
    \/ WorkerWhile
    \/ WorkerSelectTimeout
    \/ WorkerRecvLogged

\* an instrument with a frame class set
InitWorker == Init /\ frame_class

SpecWorker == InitWorker /\ [][NextWorker]_vars

\* ------------------------------------------------------------------ C1
\* index of the first packet of the run of packets that ends hist and carries
\* the frame's current id: the packets applied since the last one with another id
RunStart ==
    IF hist = <<>> THEN 1
    ELSE LET other == { k \in 1..Len(hist) : hist[k].frameid # hist[Len(hist)].frameid }
         IN  IF other = {} THEN 1
             ELSE (CHOOSE k \in other : \A j \in other : j <= k) + 1

ChannelApplied(c) == \E k \in RunStart..Len(hist) : hist[k].chan = c

HookAccepting == \A k \in 1..Len(hist) : ~hist[k].rejected

\* the frame id df had before the last applied packet
IdBeforeLast == IF Len(hist) = 1 THEN NewFrame.frameid ELSE hist[Len(hist) - 1].frameid

\* C1: complete == both validity flags set, always; while the process hook
\* accepts, the frame is complete iff a channel-1 and a channel-2 packet carrying
\* the current frame id were applied since the last packet with another id; and a
\* packet with a new frame id leaves exactly its own channel valid.
C1_CompleteIffBothChannels ==
    /\ df.complete = (df.chs_valid[1] /\ df.chs_valid[2])
    /\ HookAccepting =>
          /\ df.complete = (ChannelApplied(1) /\ ChannelApplied(2))
          /\ df.chs_valid = <<ChannelApplied(1), ChannelApplied(2)>>
    /\ (hist # <<>> /\ hist[Len(hist)].frameid # IdBeforeLast /\ HookAccepting) =>
          df.chs_valid = << hist[Len(hist)].chan = 1, hist[Len(hist)].chan = 2 >>

\* a frame completed by two packets of a new id after a stale packet was reset
C1_Witness ==
    /\ df.complete
    /\ Len(hist) = 3
    /\ hist[1].frameid # hist[2].frameid
    /\ hist[2].frameid = hist[3].frameid
    /\ HookAccepting

\* ------------------------------------------------------------------ C2
\* the put call the client is in (or has just left) found the queue full
PutFoundFull == putter.pc # "idle" /\ Len(putter.before) = _queue.maxsize

\* the effect the claim describes: N entries, the oldest gone, the others in
\* their order, the new item newest
EvictedOldest ==
    LET n == _queue.maxsize
    IN  /\ Len(putter.after) = n
        /\ \A k \in 1..n : putter.after[k] # Head(putter.before)
        /\ SubSeq(putter.after, 1, n - 1) = Tail(putter.before)
        /\ putter.after[n] = putter.item

\* C2 as stated: a put on a full queue, in its default form (block=True, no
\* timeout) as well as put_nowait, returns without blocking or raising and
\* leaves N entries with the oldest evicted and the new item newest.
C2_PutNeverBlocks ==
    (putter.pc # "idle" /\ putter.timeout = None) =>
        /\ putter.pc = "returned"
        /\ ~putter.waited
        /\ Len(putter.before) = _queue.maxsize => EvictedOldest

\* C2 amended: put_nowait (block=False) on a full queue of capacity N >= 1
\* returns at once, without raising, leaving N entries with the oldest evicted,
\* the other N-1 in their order and the new item newest. The default put
\* (block=True, no timeout) waits while the queue holds N entries and then
\* appends without evicting anything.
C2_PutNowaitEvictsOldest ==
    /\ (putter.pc # "idle" /\ ~putter.block) =>
          /\ putter.pc = "returned"
          /\ ~putter.waited
          /\ Len(putter.before) = _queue.maxsize => EvictedOldest
    /\ (putter.pc # "idle" /\ putter.block /\ putter.timeout = None) =>
          /\ putter.pc = "wait_not_full" =>
                /\ _qsize(_queue) <= _queue.maxsize
                /\ putter.waited
          /\ putter.pc = "returned" =>
                /\ Len(putter.before) < _queue.maxsize
                /\ putter.after = Append(putter.before, putter.item)
    /\ _qsize(_queue) <= _queue.maxsize

\* put_nowait has just returned from a full queue of capacity 2
C2_Witness ==
    /\ putter.pc = "returned"
    /\ ~putter.block
    /\ _queue.maxsize = 2
    /\ Len(putter.before) = 2
    /\ putter.after = <<putter.before[2], putter.item>>

\* ------------------------------------------------------------------ C3
\* a frame popped by the call that has just ended, with the state id it was
\* compared against
Mismatched(p) == heap[p.frame].trigstate # p.stateid

\* what get_frame does with the frames it pops: with wait it returns the first
\* whose trigstate is the committed state id and has discarded only mismatching
\* ones; without wait it returns the first frame popped
GetFrameReturnsFirstMatch ==
    (getter.pc = "done" /\ getter.result = "frame") =>
        LET n == Len(getter.popped)
        IN  /\ n >= 1
            /\ getter.popped[n].frame = getter.frame
            /\ getter.wait =>
                  /\ heap[getter.frame].trigstate = getter.popped[n].stateid
                  /\ \A k \in 1..(n - 1) : Mismatched(getter.popped[k])
            /\ ~getter.wait => n = 1

\* C3: get_frame(wait=True) never returns a frame whose trigstate differs from
\* _stateid; it discards every mismatching frame it pops and returns the first
\* that matches, or else raises FrameTimeout; with wait=False it returns the
\* first frame popped.
C3_FirstMatchOrFrameTimeout ==
    /\ GetFrameReturnsFirstMatch
    /\ getter.pc = "done" =>
          \/ getter.result = "frame"
          \/ /\ getter.result = "FrameTimeout"
             /\ \A k \in 1..Len(getter.popped) : Mismatched(getter.popped[k])

\* ------------------------------------------------------------------ C4
\* set_running(False) has returned, or the instrument never ran
StoppedAndReturned == ~_running /\ ctl.pc = "idle"

\* C4: after set_running(False) has returned the worker thread has exited, and
\* no step taken while the instrument stays stopped adds a frame to the queue.
C4_NoFrameAfterStop ==
    /\ [](StoppedAndReturned => worker \in {"none", "exited"})
    /\ [][StoppedAndReturned =>
            /\ completed' = completed
            /\ _qsize(_queue') <= _qsize(_queue)]_vars

\* the worker enqueued a frame, then set_running(False) was called and returned
C4_Witness ==
    /\ StoppedAndReturned
    /\ worker = "exited"
    /\ completed # <<>>
    /\ _qsize(_queue) > 0

\* ------------------------------------------------------------------ C5
\* the consumer is blocked in get_frame(timeout=None) on an empty queue
BlockedOnEmpty == InGet /\ getter.timeout = None /\ _qsize(HeldQueue) = 0

\* C5: a get_frame call with no timeout that is blocked on an empty queue when
\* the instrument has been stopped eventually returns or raises.
C5_BlockedGetEndsAfterStop ==
    (BlockedOnEmpty /\ StoppedAndReturned) ~> (getter.pc \in {"done", "idle"})

\* ------------------------------------------------------------------ C6
\* the place of a frame in the order the worker completed frames
CompletedAt(f) == CHOOSE k \in 1..Len(completed) : completed[k] = f

\* C6: the frames get_frame returned are, in order, a subsequence of the frames
\* the worker completed: each was completed, none is returned twice, and none
\* is returned before a frame completed earlier.
C6_DeliveredIsSubsequence ==
    /\ \A a, b \in 1..Len(completed) : a < b => completed[a] # completed[b]
    /\ \A i \in 1..Len(delivered) : \E k \in 1..Len(completed) : completed[k] = delivered[i]
    /\ \A i, j \in 1..Len(delivered) :
          i < j => CompletedAt(delivered[i]) < CompletedAt(delivered[j])

\* two frames were completed and the consumer obtained both, in that order
C6_Witness ==
    /\ Len(completed) = 2
    /\ delivered = completed

\* ------------------------------------------------------------------ C7
\* a datalogger_start call that raised has just ended
StartRaised ==
    /\ dlcall.op = "datalogger_start"
    /\ dlcall.result # "ok"

\* C7: whenever datalogger_start raises, the client-side session state (the
\* serial counter, tag, channels and channel count, log file name, filetype and
\* subscription handle) is what it was before the call.
C7_FailedStartLeavesNoState ==
    StartRaised => dlcall.changed = {}

\* ------------------------------------------------------------------ C8
\* a start call for 'net' raised after _dlsub_init had opened the subscription
NetStartRaisedAfterSubscribe ==
    /\ dlcall.op \in {"datalogger_start", "datalogger_start_single"}
    /\ dlcall.result # "ok"
    /\ dlcall.net
    /\ InTrace(dlcall.trace, "_dlsub_init")

\* C8: when a 'net' start raises after _dlsub_init opened the subscription, the
\* subscription has been closed and no handle is held (_dlskt is None).
C8_NoSubscriptionLeak ==
    NetStartRaisedAfterSubscribe =>
        /\ _dlskt = 0
        /\ ~subs[Len(subs)].open

\* ------------------------------------------------------------------ C9
\* C9: a datalogger_start issued while a session is started and not stopped
\* does not succeed and starts no second stream, and once it has asked the
\* device to prepare the stream it ends with StreamException(DL_STATE_BUSY); a
\* datalogger_start issued after datalogger_stop is not rejected as BUSY.
C9_SecondStartIsBusy ==
    /\ (dlcall.op = "datalogger_start" /\ dlcall.active) =>
          /\ dlcall.result # "ok"
          /\ dlcall.streams = 0
          /\ ~InTrace(dlcall.trace, "_stream_start")
          /\ InTrace(dlcall.trace, "_stream_prep") =>
                /\ dlcall.result = "StreamException"
                /\ dlcall.err = DL_STATE_BUSY
    /\ (dlcall.op = "datalogger_start" /\ dlcall.stopped) =>
          ~(dlcall.result = "StreamException" /\ dlcall.err = DL_STATE_BUSY)

\* a second start was refused as BUSY by the device
C9_Witness ==
    /\ dlcall.op = "datalogger_start"
    /\ dlcall.active
    /\ InTrace(dlcall.trace, "_stream_prep")
    /\ dlcall.result = "StreamException"
    /\ dlcall.err = DL_STATE_BUSY
    /\ dev.streams = 1

\* ------------------------------------------------------------------ C10
\* the parsed samples of the messages of header channel c, in order
RECURSIVE Collate(_, _)
Collate(msgs, c) ==
    IF msgs = <<>> THEN <<>>
    ELSE (IF Head(msgs).ch = c THEN parse(Head(msgs).data, Head(msgs).coeff)
          ELSE <<>>) \o Collate(Tail(msgs), c)

\* datalogger_wait has just returned the dict of a net session
WaitReturnedDict == waiter.pc = "done" /\ waiter.result = "dict"

InWait == waiter.pc # "idle"

\* C11: datalogger_wait dispatches on the recorded filetype: with none recorded
\* it raises InvalidOperationException at once; for 'csv' and 'bin' it polls
\* until the status is neither RUNNING nor WAITING and returns None (or raises
\* the session's error, or the upload's); for 'net' it collates samples and
\* returns the dict (or raises the session's error or FrameTimeout, or
\* InvalidOperationException when no subscription is held).
C11_WaitDispatchesOnFiletype ==
    /\ (InWait /\ _dlftype = NoFiletype) =>
          /\ waiter.pc = "done"
          /\ waiter.result = "InvalidOperationException"
          /\ waiter.consumed = <<>>
    /\ (InWait /\ _dlftype.s \in {"csv", "bin"}) =>
          /\ waiter.pc \in {"file_completed", "file_error", "done"}
          /\ waiter.consumed = <<>>
          /\ waiter.pc = "done" =>
                /\ waiter.result \in {"None", "StreamException",
                                      "InvalidOperationException"}
                /\ waiter.result = "InvalidOperationException" => waiter.upload
                /\ waiter.result = "None" =>
                      dev.status \notin {DL_STATE_RUNNING, DL_STATE_WAITING}
    /\ (InWait /\ _dlftype.s = "net") =>
          /\ waiter.pc \in {"net_error", "net_select", "done"}
          /\ waiter.pc = "done" =>
                /\ waiter.result \in {"dict", "StreamException", "FrameTimeout",
                                      "InvalidOperationException"}
                /\ waiter.result = "InvalidOperationException" => _dlskt = 0

\* ------------------------------------------------------------------ C13
\* datalogger_stop has just returned
StopReturned == dlcall.op = "datalogger_stop" /\ dlcall.result = "ok"

\* C13: after datalogger_stop returns, the device was asked to stop the stream,
\* no subscription handle is held, and the recorded filetype and log file name
\* are back at their no-session values.
C13_StopResetsSession ==
    StopReturned =>
        /\ InTrace(dlcall.trace, "_stream_stop")
        /\ _dlskt = 0
        /\ _dlftype = NoFiletype
        /\ logfile = <<>>

\* ------------------------------------------------------------------ C12
\* C12: datalogger_error(status=s) for a status s that datalogger_status
\* returns raises StreamException carrying s iff s is INVAL, FSFULL, OVERFLOW
\* or BUSY, returns normally otherwise, and does not query the device; only
\* a call without a status queries it.
ErrorCalled == callargs.op = "datalogger_error"

C12_ErrorTranslatesSuppliedStatus ==
    /\ ErrorCalled /\ callargs.status \in DlStates =>
          /\ (dlcall.result = "StreamException" /\ dlcall.err = callargs.status)
                <=> callargs.status \in {DL_STATE_INVAL, DL_STATE_FSFULL,
                                         DL_STATE_OVERFLOW, DL_STATE_BUSY}
          /\ callargs.status \in {DL_STATE_NONE, DL_STATE_RUNNING,
                                  DL_STATE_WAITING, DL_STATE_STOPPED}
                => dlcall.result = "ok"
          /\ ~InTrace(dlcall.trace, "_stream_status")
    /\ ErrorCalled /\ callargs.status = None =>
          InTrace(dlcall.trace, "_stream_status")

\* ------------------------------------------------------------------ C16
StartCalled == callargs.op = "datalogger_start"

\* the checks of datalogger_start other than the rate check all pass
OtherChecksPass(a) ==
    /\ a.ch1 \/ a.ch2
    /\ a.duration > 0
    /\ a.deployed
    /\ a.start = 0
    /\ a.x_mode = "ROLL"
    /\ a.strs

\* the table ceiling for the call's channel count, medium and filetype
CeilingOf(a) ==
    _max_stream_rates(count_channels(a.ch1, a.ch2), a.use_sd)[a.filetype.s]

\* the call raised InvalidOperationException before any request to the device
RejectedEarly ==
    /\ dlcall.result = "InvalidOperationException"
    /\ dlcall.trace = <<>>
    /\ dlcall.streams = 0

TwoChannelSdCsv(a) ==
    a.ch1 /\ a.ch2 /\ a.use_sd /\ a.filetype.s = "csv"

ReachedSpaceCheck(a) ==
    /\ OtherChecksPass(a)
    /\ a.rate2 < 2 * (CeilingOf(a) + 1)
    /\ a.fs.kind = "free"

\* (duration / timestep) * 4 * channels, in bytes
BinEstimate(a) == a.duration * a.rate2 * 2 * count_channels(a.ch1, a.ch2)

\* C17: a 'bin' start that reaches the space check raises InsufficientSpace
\* iff the free bytes are below (duration / timestep) * 4 * channels (80000
\* for 2 channels, 10 s, 1 ms), and then asks the device for nothing more.
C17_InsufficientSpaceIffBelowEstimate ==
    StartCalled /\ ReachedSpaceCheck(callargs.a)
                /\ callargs.a.filetype.s = "bin" =>
        /\ dlcall.result = "InsufficientSpace"
              <=> callargs.a.fs.f < BinEstimate(callargs.a)
        /\ dlcall.result = "InsufficientSpace"
              => dlcall.trace = <<"_fs_free">> /\ dlcall.streams = 0
        /\ callargs.a.ch1 /\ callargs.a.ch2 /\ callargs.a.duration = 10
                          /\ callargs.a.rate2 = 2000
              => BinEstimate(callargs.a) = 80000

\* ------------------------------------------------------------------ C18
\* C18 as stated: no channel, duration <= 0, not roll mode or an empty
\* descriptor string gives InvalidOperationException with no request to the
\* device and no subscription.
NoDeviceRequest ==
    /\ ~InTrace(dlcall.trace, "_stream_prep")
    /\ ~InTrace(dlcall.trace, "_stream_start")
    /\ ~InTrace(dlcall.trace, "_dlsub_init")
    /\ dlcall.streams = 0
    /\ _dlskt = 0
    /\ subs = <<>>

C18_BadArgsRaiseInvalidOperation ==
    StartCalled /\ (\/ ~(callargs.a.ch1 \/ callargs.a.ch2)
                    \/ callargs.a.duration <= 0
                    \/ callargs.a.x_mode # "ROLL"
                    \/ ~callargs.a.strs) =>
        dlcall.result = "InvalidOperationException" /\ NoDeviceRequest

\* C18: no channel or duration <= 0 gives InvalidOperationException; so does,
\* on a deployed instrument, not roll mode or an empty descriptor string; an
\* instrument that is not deployed raises NotDeployedException before these
\* two checks.  In all these cases there is no request to the device and no
\* subscription.
C18_BadArgsRaiseBeforeDevice ==
    StartCalled =>
        /\ ~(callargs.a.ch1 \/ callargs.a.ch2) \/ callargs.a.duration <= 0
              => dlcall.result = "InvalidOperationException" /\ NoDeviceRequest
        /\ callargs.a.deployed /\ (callargs.a.x_mode # "ROLL" \/ ~callargs.a.strs)
              => dlcall.result = "InvalidOperationException" /\ NoDeviceRequest
        /\ (callargs.a.ch1 \/ callargs.a.ch2) /\ callargs.a.duration > 0
           /\ ~callargs.a.deployed
              => dlcall.result = "NotDeployedException" /\ NoDeviceRequest

C18_Witness ==
    /\ StartCalled
    /\ callargs.a.ch1 /\ callargs.a.duration > 0 /\ callargs.a.deployed
    /\ callargs.a.start = 0
    /\ callargs.a.rate2 < 2 * (CeilingOf(callargs.a) + 1)
    /\ callargs.a.x_mode = "SWEEP" /\ callargs.a.strs
    /\ dev.status = DL_STATE_NONE
    /\ dlcall.result = "InvalidOperationException"

\* ------------------------------------------------------------------ C19
GetSamplesCalled == dlcall.op = "datalogger_get_samples"

UploadCalled == upcall.op = "datalogger_upload"

\* no fetch of the call wrote over a file that was there
NoFetchOverwrites ==
    \A k \in 1..Len(upcall.events) :
        upcall.events[k].e = "fetch"
            => upcall.events[k].name \notin upcall.events[k].names

\* every file that was there before the call is there after it, under some
\* name, with its content
LocalFilesKept ==
    \A n \in DOMAIN upcall.before :
        \E m \in DOMAIN local : local[m] = upcall.before[n]

\* every rename of the call moved the clashing file to name-i for the smallest
\* i >= 1 with no file name-i, and the fetch of that name came next
RenamesToSmallestFree ==
    \A k \in 1..Len(upcall.events) :
        LET ev == upcall.events[k] IN
        ev.e = "rename" =>
            /\ ev.name \in ev.names
            /\ \E i \in 1..(Cardinality(ev.names) + 1) :
                  /\ ev.dst = Append(ev.name, i)
                  /\ ev.dst \notin ev.names
                  /\ \A j \in 1..(i - 1) : Append(ev.name, j) \in ev.names
            /\ k < Len(upcall.events)
            /\ upcall.events[k + 1].e = "fetch"
            /\ upcall.events[k + 1].name = ev.name

\* C14: datalogger_upload never writes over a local file: a clashing local
\* file is first renamed to name-i for the smallest free i >= 1, then the
\* device file is fetched, and every local file that existed is kept with its
\* content.
C14_UploadKeepsLocalFiles ==
    UploadCalled =>
        /\ NoFetchOverwrites
        /\ RenamesToSmallestFree
        /\ LocalFilesKept

C14_Witness ==
    /\ UploadCalled
    /\ upcall.result = "ok"
    /\ \E k \in 1..Len(upcall.events) :
          /\ upcall.events[k].e = "rename"
          /\ upcall.events[k].dst = <<"a", 2>>
    /\ Len(upcall.events) >= 3

\* ------------------------------------------------------------------ C15
UploadAllCalled == upcall.op = "datalogger_upload_all"

\* a device file the call fetched had the name of a local file
UploadAllClashed ==
    \E k \in 1..Len(upcall.events) :
        upcall.events[k].name \in DOMAIN upcall.before

\* C15: datalogger_upload_all renames a clashing local file before the fetch
\* and never writes over it.
C15_UploadAllKeepsLocalFiles ==
    UploadAllCalled /\ UploadAllClashed =>
        /\ NoFetchOverwrites
        /\ LocalFilesKept
        /\ \E k \in 1..Len(upcall.events) : upcall.events[k].e = "rename"

\* ------------------------------------------------------------------ C20
BufferDone == buf.pc = "done"

\* n calls of datalogger_get_samples in a row
RECURSIVE GetSamplesCalls(_)
GetSamplesCalls(n) ==
    IF n = 0 THEN <<>> ELSE <<"datalogger_get_samples">> \o GetSamplesCalls(n - 1)

\* C20: a get_buffer call that returns a DataBuffer or raises BufferTimeout
\* has paused, committed, started a single-shot net session, consumed the
\* messages up to the sentinel and stopped the session, closing the
\* subscription, before its one get_frame; ch1 and ch2 are the samples of the
\* two channels in arrival order and stateid is the trigstate of the frame
\* fetched.  With a timeout and no frame to fetch it raises BufferTimeout.
C20_GetBufferOrderAndTimeout ==
    /\ BufferDone /\ buf.result \in {"DataBuffer", "BufferTimeout"} =>
          LET n == Len(buf.consumed)
              samples == SubSeq(buf.consumed, 1, n - 1)
          IN  /\ n >= 1
              /\ buf.trace = <<"set_pause", "commit", "datalogger_start_single">>
                               \o GetSamplesCalls(n)
                               \o <<"datalogger_stop", "get_frame">>
              /\ buf.started = "single net"
              /\ buf.consumed[n].ch = -1
              /\ \A i \in 1..(n - 1) : buf.consumed[i].ch # -1
              /\ buf.ch1 = Collate(samples, 0)
              /\ buf.ch2 = Collate(samples, 1)
              /\ _dlskt = 0
              /\ ~subs[buf.skt].open
              /\ buf.result = "DataBuffer" =>
                    /\ Len(buf.popped) = 1
                    /\ buf.stateid = heap[buf.popped[1].frame].trigstate
              /\ buf.result = "BufferTimeout" => buf.popped = <<>>
    /\ BufferDone /\ InTrace(buf.trace, "get_frame") /\ buf.timeout # None
                  /\ buf.popped = <<>> =>
          buf.result = "BufferTimeout"

\* ------------------------------------------------------------------ C21
\* C21: flush is atomic with respect to put and get: in the state right after a
\* flush the queue is empty, and a get that began after a flush never returns an
\* item that was enqueued before that flush (items are numbered in the order
\* they were put; since is the number of items put before the last flush that
\* preceded the get).
C21_FlushEmptiesAtomically ==
    /\ qlog.justflushed => _queue.queue = <<>>
    /\ \A k \in 1..Len(qlog.returned) :
         qlog.returned[k].item > qlog.returned[k].since

\* a flush removed an entry, and a get that began after it returned an item
C21_Witness ==
    \E k \in 1..Len(qlog.returned) :
        /\ qlog.returned[k].since > 0
        /\ qlog.returned[k].since \in qlog.flushed

\* ------------------------------------------------------------------ C30
\* C30: under every interleaving of put_nowait, get and flush on one FrameQueue
\* of capacity N the queue never holds more than N entries, no item is returned
\* by two gets, no get returns an item that was evicted or flushed before, and
\* every get returns the oldest entry the queue held.
C30_QueueInterleavings ==
    /\ _qsize(_queue) <= _queue.maxsize
    /\ \A j, k \in 1..Len(qlog.returned) :
         j # k => qlog.returned[j].item # qlog.returned[k].item
    /\ \A k \in 1..Len(qlog.returned) :
         /\ ~qlog.returned[k].gone
         /\ qlog.returned[k].oldest

\* a full queue of capacity 2 evicted an entry, a flush removed one, and both
\* consumers have been returned an item
C30_Witness ==
    /\ _queue.maxsize = 2
    /\ qlog.evicted # {}
    /\ qlog.flushed # {}
    /\ \E j, k \in 1..Len(qlog.returned) : qlog.returned[j].by # qlog.returned[k].by

\* ------------------------------------------------------------------ C22
\* C22: cooperative cancellation terminates: whenever set_running(False) waits
\* in its join, the worker thread eventually exits and the join returns,
\* whatever the frame queue holds and whether packets keep arriving or not.
C22_StopTerminates ==
    (ctl.pc = "join") ~> (ctl.pc = "idle" /\ worker = "exited" /\ ~_running)

\* set_running(False) waits in its join while the worker is polling the
\* transport and the frame queue is full
C22_Witness ==
    /\ ctl.pc = "join"
    /\ worker = "select"
    /\ _qsize(_queue) = _queue.maxsize

\* ------------------------------------------------------------------ C23
\* the client is inside the polling loop of datalogger_wait_file
InWaitFile == waiter.pc \in {"file_completed", "file_error"}

\* C23: datalogger_wait / datalogger_wait_file on a csv or bin session, called
\* with a finite timeout, ends (with FrameTimeout once the timeout has elapsed)
\* even if the session stays RUNNING or WAITING.
C23_WaitFileHonoursTimeout ==
    (InWaitFile /\ waiter.timeout # None) ~> (waiter.pc = "done")

\* ------------------------------------------------------------------ C24
\* C24: register field round-trip: after writing v to a field, if v is
\* representable in the field's bit width and signedness the write succeeds,
\* reading the field returns v and every other field reads as before; otherwise
\* the write fails with a range error and the register mirror is unchanged.
C24_FieldRoundTrip ==
    pm.last.op = "set" =>
        LET f == Fields[pm.last.name]
            v == pm.last.value
        IN  IF field_min(f) <= v /\ v <= field_max(f)
            THEN /\ pm.last.raised = "none"
                 /\ get_attr(pm.last.name, regs) = v
                 /\ \A n \in FieldNames \ {pm.last.name} :
                      get_attr(n, regs) = get_attr(n, pm.last.before)
            ELSE /\ pm.last.raised = "ValueOutOfRangeException"
                 /\ regs = pm.last.before

\* the most negative control_gain was written over a register holding ones
C24_Witness ==
    /\ pm.last.op = "set"
    /\ pm.last.name = "control_gain"
    /\ pm.last.value = 0 - 32768
    /\ pm.last.raised = "none"
    /\ pm.last.before[REG_PM_CGAIN] # 0
    /\ get_attr("control_gain", regs) = 0 - 32768

\* ------------------------------------------------------------------ C25
\* the last call was set_samplerate
SamplerateSet == pm.last.op = "set_samplerate"

\* the N that set_samplerate left in output_shift
ShiftSet == get_attr("output_shift", regs)

\* output decimation 2^N with N in [13,16], output_shift = N, timestep = 2^N us
AllowableRateSet ==
    /\ ShiftSet \in 13..16
    /\ get_attr("output_decimation", regs) = 2^ShiftSet
    /\ pm.timestep = 2^ShiftSet

\* the rate 1e6/2^N is the greatest allowable rate not above the requested one
RoundedDown ==
    /\ _PM_UPDATE_RATE <= pm.last.value * 2^ShiftSet
    /\ ShiftSet > 13 => pm.last.value * 2^(ShiftSet - 1) < _PM_UPDATE_RATE

StartWasCalled == dlcall.op \in {"datalogger_start", "datalogger_start_single"}

\* C26: a start call with filetype 'net' that asks the device to start has
\* opened the subscription for the session's tag just before; a start call
\* with another filetype opens none; and whenever the device is streaming a
\* net session a subscription for its tag is open.
C26_SubscribedBeforeStreamStart ==
    /\ StartWasCalled =>
         /\ InTrace(dlcall.trace, "_dlsub_init") => dlcall.net
         /\ ~dlcall.net => "_dlskt" \notin dlcall.changed
         /\ (dlcall.net /\ InTrace(dlcall.trace, "_stream_start")) =>
              /\ \E k \in 1..(Len(dlcall.trace) - 1) :
                    /\ dlcall.trace[k] = "_dlsub_init"
                    /\ dlcall.trace[k + 1] = "_stream_start"
              /\ _dlskt # 0
              /\ subs[_dlskt].open
              /\ subs[_dlskt].tag = tag
    /\ (dev.net /\ dev.status = DL_STATE_RUNNING) =>
         \E i \in 1..Len(subs) : subs[i].open /\ subs[i].tag = dev.tag

\* a net start succeeded and the device has published a message of the
\* session, which the subscription received
C26_Witness ==
    /\ dev.net
    /\ dev.status = DL_STATE_RUNNING
    /\ dev.sent > 0
    /\ _dlskt # 0
    /\ subs[_dlskt].tag = dev.tag
    /\ Len(subs[_dlskt].rx) = dev.sent

\* ------------------------------------------------------------------ C27
\* the packets after which the worker enqueued its frame
EnqueuedAt == { k \in 1..Len(hist) : hist[k].enqueued }

\* packets i < j of the log were applied to one frame object (a reference is
\* used again for a new object when a stopped worker's last frame is dropped)
SameObject(i, j) ==
    /\ hist[i].ref = hist[j].ref
    /\ \A m \in (i + 1)..j : ~(hist[m].ref = hist[i].ref /\ hist[m].first)

\* C27: every frame the worker enqueues is complete, both validity flags set
\* by packets of one frame id with no rejection by the process hook in between;
\* it is enqueued once; and no packet received after the enqueue is applied to
\* it: the worker goes on with another frame object.
C27_EnqueuedFramesCompleteAndFrozen ==
    /\ Len(completed) = Cardinality(EnqueuedAt)
    /\ \A i, j \in 1..Len(completed) : i # j => completed[i] # completed[j]
    /\ fr # 0 => fr \notin entries(completed)
    /\ \A k \in EnqueuedAt :
         LET f == hist[k].ref
         IN  /\ f \in entries(completed)
             /\ heap[f].complete
             /\ heap[f].chs_valid = <<TRUE, TRUE>>
             /\ heap[f].frameid = hist[k].frameid
             /\ ~hist[k].rejected
             /\ \E i \in 1..(k - 1) :
                  /\ SameObject(i, k)
                  /\ hist[i].chan # hist[k].chan
                  /\ \A j \in i..k :
                       hist[j].ref = f =>
                          hist[j].frameid = hist[k].frameid /\ ~hist[j].rejected
             /\ \A j \in (k + 1)..Len(hist) : hist[j].ref # f

\* the worker enqueued two frames, the second built in another object from the
\* packets that followed the first enqueue
C27_Witness ==
    /\ Len(completed) = 2
    /\ Cardinality(EnqueuedAt) = 2
    /\ heap[completed[1]].frameid # heap[completed[2]].frameid

\* ------------------------------------------------------------------ C28
\* a packet completed the worker's frame and the process hook rejected it: the
\* frame is not enqueued, and leaves add_packet incomplete with both validity
\* flags cleared
RejectedFrameDropped ==
    /\ \A k \in 1..Len(hist) : hist[k].rejected => ~hist[k].enqueued
    /\ Len(completed) = Cardinality(EnqueuedAt)
    /\ (hist # <<>> /\ hist[Len(hist)].rejected /\ fr = hist[Len(hist)].ref) =>
          /\ ~heap[fr].complete
          /\ heap[fr].chs_valid = <<FALSE, FALSE>>
          /\ fr \notin entries(completed)

\* C28 as stated: a rejected frame is dropped, and the frame object is enqueued
\* later only through packets of another frame id than the abandoned one.
C28_AbandonedIdNeverCompletes ==
    /\ RejectedFrameDropped
    /\ \A k, j \in 1..Len(hist) :
         (k < j /\ hist[k].rejected /\ hist[j].enqueued /\ SameObject(k, j)) =>
            hist[j].frameid # hist[k].frameid

\* C28 (amended): a rejected frame is dropped, and the frame object is enqueued
\* later only after packets of both channels with one frame id, the abandoned
\* one or another, have been received after the rejection.
C28_RejectedFrameStartsOver ==
    /\ RejectedFrameDropped
    /\ \A k, j \in 1..Len(hist) :
         (k < j /\ hist[k].rejected /\ hist[j].enqueued /\ SameObject(k, j)) =>
            \E i \in (k + 1)..(j - 1) :
               /\ SameObject(i, j)
               /\ hist[i].chan # hist[j].chan
               /\ hist[i].frameid = hist[j].frameid

\* the hook rejected a frame, and two further packets carrying the same frame
\* id completed the same frame object, which was enqueued
C28_Witness ==
    \E k, j \in 1..Len(hist) :
        /\ k < j
        /\ hist[k].rejected
        /\ hist[j].enqueued
        /\ SameObject(k, j)
        /\ hist[j].frameid = hist[k].frameid

\* ------------------------------------------------------------------ C29
\* the last add_packet call left every field of the frame as it was
FrameUntouched == df = dfBefore

\* the last packet was parsed and applied to its channel: the header fields are
\* the packet's, and the payload is stored for the packet's channel with its
\* validity flag set unless the process hook has just revoked the frame
PacketApplied ==
    /\ df.frameid = unpack_frameid(lastPacket)
    /\ df.stateid = unpack_stateid(lastPacket)
    /\ df.trigstate = unpack_trigstate(lastPacket)
    /\ df.flags = unpack_flags(lastPacket)
    /\ df.waveformid = unpack_waveformid(lastPacket)
    /\ IF ChannelOf(lastPacket) = 1
       THEN df.raw1 = packet_payload(lastPacket)
       ELSE df.raw2 = packet_payload(lastPacket)
    /\ \/ df.chs_valid[ChannelOf(lastPacket)]
       \/ (hist # <<>> /\ hist[Len(hist)].rejected /\ df.chs_valid = <<FALSE, FALSE>>)

\* C29 as stated: add_packet drops a packet iff it is shorter than the 15-byte
\* header; a dropped packet leaves every field unchanged, and a packet at least
\* as long as the header is parsed and applied to its channel.
C29_DropsIffShorterThanHeader ==
    npackets > 0 =>
        IF Len(lastPacket) < hdr_len THEN FrameUntouched ELSE PacketApplied

\* C29 (amended): add_packet drops a packet iff it is not longer than the
\* 15-byte header; a dropped packet leaves every field unchanged, and a packet
\* longer than the header is parsed and applied to its channel.
C29_DropsIffNotLongerThanHeader ==
    npackets > 0 =>
        IF Len(lastPacket) <= hdr_len THEN FrameUntouched ELSE PacketApplied

\* a packet of exactly 15 bytes, a bare header naming another frame id and
\* state than the frame holds, was dropped
C29_Witness ==
    /\ npackets > 1
    /\ Len(lastPacket) = hdr_len
    /\ df = dfBefore
    /\ df.stateid # None
    /\ unpack_frameid(lastPacket) # df.frameid
    /\ unpack_stateid(lastPacket) # df.stateid

\* ------------------------------------------------------------------ C31
\* a start call has just established a session: it returned and the device
\* started a stream
SessionEstablished ==
    /\ dlcall.op \in {"datalogger_start", "datalogger_start_single"}
    /\ dlcall.result = "ok"
    /\ dlcall.streams = 1

\* a start call has just opened a subscription
SubscriptionOpened ==
    /\ dlcall.op \in {"datalogger_start", "datalogger_start_single"}
    /\ InTrace(dlcall.trace, "_dlsub_init")

\* a < b for two tags as Python compares the strings: at the first character
\* that differs
TagLess(a, b) ==
    \E i \in 1..Len(a) :
        /\ i <= Len(b)
        /\ a[i] < b[i]
        /\ \A j \in 1..(i - 1) : a[j] = b[j]

\* C31: the session serial never decreases: no call leaves it below the value
\* it found, and the tags of the subscriptions opened so far are strictly
\* increasing and none is above the current tag; a datalogger_start or
\* datalogger_start_single call that establishes a session advances the
\* serial by exactly one and leaves the serial as four digits in the tag; and
\* a subscription opened by a start call is for the tag that the call gave to
\* the device in _stream_prep.
C31_SerialMonotonic ==
    /\ dlcall.serial0 # None => _dlserial >= dlcall.serial0
    /\ tag # <<>> => tag = Fmt04d(_dlserial)
    /\ \A i, j \in 1..Len(subs) : i < j => TagLess(subs[i].tag, subs[j].tag)
    /\ \A i \in 1..Len(subs) : subs[i].tag = tag \/ TagLess(subs[i].tag, tag)
    /\ SessionEstablished =>
          /\ _dlserial = dlcall.serial0 + 1
          /\ tag = Fmt04d(dlcall.serial0 + 1)
    /\ SubscriptionOpened =>
          /\ _dlskt = Len(subs)
          /\ subs[_dlskt].tag = dev.asked
          /\ subs[_dlskt].tag = tag

\* the second session of a client is a net session: its subscription and the
\* device's request both carry the tag 0002
C31_Witness ==
    /\ SessionEstablished
    /\ dlcall.net
    /\ dlcall.serial0 = 1
    /\ _dlserial = 2
    /\ tag = <<0, 0, 0, 2>>
    /\ _dlskt # 0
    /\ subs[_dlskt].open
    /\ subs[_dlskt].tag = tag
    /\ dev.asked = tag

\* ------------------------------------------------------------------ C32
\* C32: every get_frame call that has ended either returned a DataFrame taken
\* from the frame queue or raised FrameTimeout; none returned None.
C32_GetFrameReturnsFrameOrTimeout ==
    getter.pc = "done" =>
        \/ getter.result = "FrameTimeout"
        \/ /\ getter.result = "frame"
           /\ getter.frame \in 1..Len(heap)
           /\ getter.popped # <<>>
           /\ getter.popped[Len(getter.popped)].frame = getter.frame

\* ------------------------------------------------------------------ C34
\* a get_frame call without timeout waits inside FrameQueue.get on the queue
\* object that set_buffer_length replaced, which is empty, while the queue the
\* worker now writes to holds a frame completed since
Stranded ==
    /\ InGet
    /\ getter.onstale
    /\ getter.timeout = None
    /\ _running
    /\ _qsize(staleq) = 0
    /\ _qsize(_queue) > 0

\* C34: a get_frame call that was blocked on the empty queue when
\* set_buffer_length was called does not keep waiting while the worker's
\* frames are there to take: it comes to see them.
C34_BlockedGetNotStranded ==
    Stranded ~> ~Stranded

\* ------------------------------------------------------------------ C33
\* the subscriptions that are open
OpenSubscriptions == { i \in 1..Len(subs) : subs[i].open }

\* C33: at most one sample subscription is open at any time, and an open
\* subscription is the one the handle _dlskt refers to: none is left open
\* once another is opened or the handle is overwritten.
C33_OneSubscriptionNoOrphan ==
    /\ Cardinality(OpenSubscriptions) <= 1
    /\ \A i \in OpenSubscriptions : _dlskt = i

\* ------------------------------------------------------------------ C35
\* a start call has just ended in which the device rejected _stream_prep: the
\* device was asked to prepare the call's tag and holds no stream for it
PrepRejected ==
    /\ dlcall.op \in {"datalogger_start", "datalogger_start_single"}
    /\ InTrace(dlcall.trace, "_stream_prep")
    /\ dev.asked = tag
    /\ dev.tag # tag

\* C35: when the device rejects _stream_prep, whatever status code the
\* StreamException carries, the start call raises; it opens no subscription,
\* does not ask the device to start the stream and records no filetype.
C35_RejectedPrepRaises ==
    PrepRejected =>
        /\ dlcall.result = "StreamException"
        /\ ~InTrace(dlcall.trace, "_dlsub_init")
        /\ ~InTrace(dlcall.trace, "_stream_start")
        /\ "_dlskt" \notin dlcall.changed
        /\ "_dlftype" \notin dlcall.changed

====
